---- MODULE Spec2Model ----
(***************************************************************************)
(* DeployX: a Telegram bot that walks a chat through deploying a smart     *)
(* contract (src/index.js) and the on-chain ContractRegistry               *)
(* (src/unnamed/part_000).                                                 *)
(*                                                                         *)
(* The bot is a single-threaded event loop: every command, button          *)
(* selection and text message runs its handler to completion, and an async *)
(* deployContract runs from one await to the next.  Each of these is one   *)
(* action below.                                                           *)
(***************************************************************************)
EXTENDS Integers, Sequences, FiniteSets, Bags, TLC

\* ------------------------------------------------------------------ bounds
\* async calls (deployContract, viewUserContracts) suspended at the same time
MaxAttempts == 1
\* the latest block timestamp
MaxTimestamp == 2

\* ------------------------------------------------------- program constants
KeyLen == 66
AddrLen == 42
MaxNameLen == 100

\* ---------------------------------------------------------------- strings
\* String.prototype.startsWith
startsWith(s, p) == Len(s) >= Len(p) /\ SubSeq(s, 1, Len(p)) = p

\* String.prototype.includes
includes(s, sub) ==
  \E i \in 1..(Len(s) - Len(sub) + 1) : SubSeq(s, i, i + Len(sub) - 1) = sub

\* String.prototype.replace with a string pattern: the first occurrence
replace(s, pattern, replacement) ==
  LET at == {i \in 1..(Len(s) - Len(pattern) + 1) :
               SubSeq(s, i, i + Len(pattern) - 1) = pattern}
  IN IF at = {}
     THEN s
     ELSE LET i == CHOOSE j \in at : \A k \in at : j <= k
          IN SubSeq(s, 1, i - 1) \o replacement
               \o SubSeq(s, i + Len(pattern), Len(s))

WhiteSpace == {" ", "\t", "\n"}

RECURSIVE trimStart(_)
trimStart(s) ==
  IF Len(s) > 0 /\ Head(s) \in WhiteSpace THEN trimStart(Tail(s)) ELSE s

RECURSIVE trimEnd(_)
trimEnd(s) ==
  IF Len(s) > 0 /\ SubSeq(s, Len(s), Len(s)) \in WhiteSpace
  THEN trimEnd(SubSeq(s, 1, Len(s) - 1))
  ELSE s

\* String.prototype.trim
trim(s) == trimEnd(trimStart(s))

RECURSIVE Rep(_, _)
Rep(ch, n) == IF n = 0 THEN "" ELSE ch \o Rep(ch, n - 1)

HexDigits ==
  {"0", "1", "2", "3", "4", "5", "6", "7", "8", "9",
   "a", "b", "c", "d", "e", "f", "A", "B", "C", "D", "E", "F"}

IsHex(s) == \A i \in 1..Len(s) : SubSeq(s, i, i) \in HexDigits

\* `0x` followed by exactly 64 hexadecimal digits
IsHexKey(s) ==
  /\ Len(s) = KeyLen
  /\ startsWith(s, "0x")
  /\ IsHex(SubSeq(s, 3, Len(s)))

\* ------------------------------------------------------ JavaScript values
Undefined == [t |-> "undefined"]
Null == [t |-> "null"]
Str(s) == [t |-> "str", v |-> s]
Num(n) == [t |-> "num", v |-> n]
Bool(b) == [t |-> "bool", v |-> b]
Arr(a) == [t |-> "arr", v |-> a]
Obj(o) == [t |-> "obj", v |-> o]
\* what a throwing expression yields
Throw == [t |-> "throw"]

IsStr(x) == x.t = "str"
IsArr(x) == x.t = "arr"
IsObj(x) == x.t = "obj"

\* !x is false
Truthy(x) ==
  CASE x.t \in {"undefined", "null"} -> FALSE
    [] x.t = "str" -> x.v # ""
    [] x.t = "num" -> x.v # 0
    [] x.t = "bool" -> x.v
    [] OTHER -> TRUE

\* x.k for a data property k: a TypeError on null and undefined, undefined
\* where x has no such property
Prop(x, k) ==
  CASE x.t \in {"undefined", "null", "throw"} -> Throw
    [] x.t = "obj" -> IF k \in DOMAIN x.v THEN x.v[k] ELSE Undefined
    [] OTHER -> Undefined

\* ------------------------------------------------------------------ texts
DataOk == "{\"bytecode\":\"0x60\",\"abi\":[]}"
DataAbiStr == "{\"bytecode\":\"0x60\",\"abi\":\"x\"}"
DataNo0x == "{\"bytecode\":\"60\",\"abi\":[]}"
DataNoBytecode == "{\"abi\":[]}"
DataNoAbi == "{\"bytecode\":\"0x60\"}"
DataBytecodeNum == "{\"bytecode\":5,\"abi\":[]}"
DataCtor == "{\"bytecode\":\"0x60\",\"abi\":[{\"type\":\"constructor\",\"inputs\":[]}]}"
DataCtorUint ==
  "{\"bytecode\":\"0x60\",\"abi\":[{\"type\":\"constructor\",\"inputs\":[{\"type\":\"uint256\"}]}]}"
ArgsEmpty == "[]"
ArgsOne == "[123]"
ArgsStr == "[\"hello\"]"
ArgsTwo == "[123,\"hello\"]"
NotJson == "not-an-address"
NameDemo == "Demo"
NamePadded == "  Demo \n"
NameBlank == " \t "
NameMax == Rep("a", MaxNameLen)
NameTooLong == Rep("a", MaxNameLen + 1)
KeyOk == "0x" \o Rep("1f", 32)
KeyBadHex == "0x" \o Rep("1f", 31) \o "zz"
KeyShort == "0x" \o Rep("1f", 31)
KeyNoPrefix == Rep("1f", 33)
KeyLong == "0x" \o Rep("1f", 33)
AddrOk == "0x" \o Rep("ab", 20)
AddrBadHex == "0x" \o Rep("ab", 19) \o "zz"
AddrShort == "0x" \o Rep("ab", 19)
AddrNoPrefix == Rep("ab", 21)

\* JSON.parse, on the texts the model sends
JSONparse(text) ==
  CASE text = DataOk -> Obj([bytecode |-> Str("0x60"), abi |-> Arr(<<>>)])
    [] text = DataAbiStr -> Obj([bytecode |-> Str("0x60"), abi |-> Str("x")])
    [] text = DataNo0x -> Obj([bytecode |-> Str("60"), abi |-> Arr(<<>>)])
    [] text = DataNoBytecode -> Obj([abi |-> Arr(<<>>)])
    [] text = DataNoAbi -> Obj([bytecode |-> Str("0x60")])
    [] text = DataBytecodeNum -> Obj([bytecode |-> Num(5), abi |-> Arr(<<>>)])
    [] text = DataCtor ->
         Obj([bytecode |-> Str("0x60"),
              abi |-> Arr(<<Obj([type |-> Str("constructor"), inputs |-> Arr(<<>>)])>>)])
    [] text = DataCtorUint ->
         Obj([bytecode |-> Str("0x60"),
              abi |-> Arr(<<Obj([type |-> Str("constructor"),
                                 inputs |-> Arr(<<Obj([type |-> Str("uint256")])>>)])>>)])
    [] text = ArgsEmpty -> Arr(<<>>)
    [] text = ArgsOne -> Arr(<<Num(123)>>)
    [] text = ArgsStr -> Arr(<<Str("hello")>>)
    [] text = ArgsTwo -> Arr(<<Num(123), Str("hello")>>)
    [] text = "123" -> Num(123)
    [] text = "{}" -> Obj(<<>>)
    [] text = "\"abc\"" -> Str("abc")
    [] text = "true" -> Bool(TRUE)
    [] text = "null" -> Null
    [] OTHER -> Throw

\* ---------------------------------------------------------- configuration
\* keys of NETWORKS
NETWORKS == {"mantle-testnet"}

\* network keys a select_network_ button can carry
NetworkKeys == {"mantle-testnet", "sepolia"}

\* values process.env.PRIVATE_KEY can have when the bot starts
DemoKeys == {Undefined, Str(KeyOk), Str(KeyBadHex), Str(KeyShort)}

\* --------------------------------------------------------------- sessions
\* the object startDeploymentProcess stores; a property never assigned reads
\* as undefined
startDeploymentSession ==
  [step |-> "contract_input", contractData |-> Null, constructorParams |-> Null,
   network |-> Null, privateKey |-> Null, contractInputType |-> Undefined,
   contractName |-> Undefined, action |-> Undefined]

\* the object showMyContracts stores
showMyContractsSession ==
  [step |-> "awaiting_address", contractData |-> Undefined,
   constructorParams |-> Undefined, network |-> Undefined,
   privateKey |-> Undefined, contractInputType |-> Undefined,
   contractName |-> Undefined, action |-> Str("view_contracts")]

\* userSessions.get(chatId) of a chat that has no entry
NoSession == [step |-> "none"]

\* the result of a handler on a session: the session after it, the messages
\* it sent, and whether it went on to call deployContract
Result(s, msgs, go) == [session |-> s, msgs |-> msgs, deploy |-> go]

handleContractInputType(s, type) ==
  Result([s EXCEPT !.contractInputType = Str(type), !.step = "awaiting_contract_data"],
         <<IF type = "bytecode_abi" THEN "prompt_bytecode_abi" ELSE "prompt_solidity">>,
         FALSE)

\* the try block of handleContractData up to the assignment to the session:
\* the contract data, or Throw
parseContractData(s, text) ==
  IF s.contractInputType = Str("bytecode_abi")
  THEN LET contractData == JSONparse(text)
           bytecode == Prop(contractData, "bytecode")
           abi == Prop(contractData, "abi")
       IN CASE contractData = Throw -> Throw
            [] bytecode = Throw -> Throw
            [] ~Truthy(bytecode) \/ ~Truthy(abi) -> Throw
            [] ~IsStr(bytecode) -> Throw
            [] ~startsWith(bytecode.v, "0x") -> Throw
            [] OTHER -> contractData
  ELSE Obj([sourceCode |-> Str(text)])

\* whether getConstructorInfo throws: abi.find on a value that is no array,
\* item.type on a null item
getConstructorInfoThrows(contractData, inputType) ==
  IF inputType = Str("solidity")
  THEN FALSE
  ELSE LET abi == Prop(contractData, "abi")
       IN \/ ~IsArr(abi)
          \/ \E i \in 1..Len(abi.v) : Prop(abi.v[i], "type") = Throw

handleContractData(s, text) ==
  LET contractData == parseContractData(s, text)
      stored == [s EXCEPT !.contractData = contractData,
                          !.step = "awaiting_constructor_params"]
  IN CASE contractData = Throw -> Result(s, <<"err_contract_data">>, FALSE)
       [] getConstructorInfoThrows(contractData, s.contractInputType) ->
            Result(stored, <<"err_contract_data">>, FALSE)
       [] OTHER -> Result(stored, <<"contract_data_ok">>, FALSE)

\* handleConstructorParams without the Array.isArray check
handleConstructorParamsAnyJson(s, text) ==
  LET params == JSONparse(text)
  IN IF params = Throw
     THEN Result(s, <<"err_params">>, FALSE)
     ELSE Result([s EXCEPT !.constructorParams = params,
                           !.step = "awaiting_contract_name"],
                 <<"params_ok">>, FALSE)

handleConstructorParams(s, text) ==
  LET params == JSONparse(text)
  IN IF params = Throw \/ ~IsArr(params)
     THEN Result(s, <<"err_params">>, FALSE)
     ELSE Result([s EXCEPT !.constructorParams = params,
                           !.step = "awaiting_contract_name"],
                 <<"params_ok">>, FALSE)

\* handleContractName that checks the trimmed name and stores the raw one
handleContractNameRaw(s, contractName) ==
  LET trimmedName == trim(contractName)
  IN CASE Len(trimmedName) = 0 -> Result(s, <<"err_name_empty">>, FALSE)
       [] Len(trimmedName) > MaxNameLen -> Result(s, <<"err_name_long">>, FALSE)
       [] OTHER ->
            Result([s EXCEPT !.contractName = Str(contractName),
                             !.step = "awaiting_network_selection"],
                   <<"name_ok">>, FALSE)

handleContractName(s, contractName) ==
  LET trimmedName == trim(contractName)
  IN CASE Len(trimmedName) = 0 -> Result(s, <<"err_name_empty">>, FALSE)
       [] Len(trimmedName) > MaxNameLen -> Result(s, <<"err_name_long">>, FALSE)
       [] OTHER ->
            Result([s EXCEPT !.contractName = Str(trimmedName),
                             !.step = "awaiting_network_selection"],
                   <<"name_ok">>, FALSE)

selectNetworkForDeployment(s, network) ==
  IF network \notin NETWORKS
  THEN Result(s, <<>>, FALSE)
  ELSE Result([s EXCEPT !.network = Str(network), !.step = "deployment_confirmation"],
              <<"network_selected">>, FALSE)

requestPrivateKey(s) ==
  Result([s EXCEPT !.step = "awaiting_private_key_choice"], <<"key_choice">>, FALSE)

useDemoKey(s, demoKey) ==
  IF ~Truthy(demoKey) \/ ~startsWith(demoKey.v, "0x") \/ Len(demoKey.v) # KeyLen
  THEN Result(s, <<"err_demo_key">>, FALSE)
  ELSE Result([s EXCEPT !.privateKey = demoKey, !.step = "deploying"],
              <<"using_demo_key">>, TRUE)

requestCustomPrivateKey(s) ==
  Result([s EXCEPT !.step = "awaiting_private_key"], <<"prompt_key">>, FALSE)

handlePrivateKey(s, privateKey) ==
  IF ~startsWith(privateKey, "0x") \/ Len(privateKey) # KeyLen
  THEN Result(s, <<"err_key">>, FALSE)
  ELSE Result([s EXCEPT !.privateKey = Str(privateKey), !.step = "deploying"],
              <<"key_received">>, TRUE)

\* the validation of handleAddressForContracts: TRUE when the text is taken
\* as an address (the session is then deleted and the lookup started)
addressAccepted(s, address) ==
  /\ s.action = Str("view_contracts")
  /\ startsWith(address, "0x")
  /\ Len(address) = AddrLen

\* the switch of bot.on('message') on session.step
onMessage(s, text) ==
  CASE s.step = "awaiting_contract_data" -> handleContractData(s, text)
    [] s.step = "awaiting_constructor_params" -> handleConstructorParams(s, text)
    [] s.step = "awaiting_contract_name" -> handleContractName(s, text)
    [] s.step = "awaiting_private_key" -> handlePrivateKey(s, text)
    [] OTHER -> Result(s, <<>>, FALSE)

\* ------------------------------------------------------------ compilation
SrcOk == "contract C {}"
SrcTwo == "contract A {} contract B {}"
SrcIface == "interface I {}"
SrcNone == "pragma solidity ^0.8.0;"

Warning == [severity |-> "warning", message |-> "SPDX license identifier not provided"]
ParserError == [severity |-> "error", message |-> "ParserError: Expected pragma"]
Unit(name, object) == [name |-> name, object |-> object, abi |-> Arr(<<>>)]

\* JSON.parse(solc.compile(...)): the diagnostics (output.errors) and the
\* compiled units of contract.sol in the compiler's order; Undefined where
\* the output has no such key
solcCompile(sourceCode) ==
  CASE sourceCode = Str(SrcOk) ->
         [errors |-> Arr(<<Warning>>), contracts |-> Arr(<<Unit("C", Str("6080"))>>)]
    [] sourceCode = Str(SrcTwo) ->
         [errors |-> Undefined,
          contracts |-> Arr(<<Unit("A", Str("60a0")), Unit("B", Str("60b0"))>>)]
    [] sourceCode = Str(SrcIface) ->
         [errors |-> Arr(<<Warning>>), contracts |-> Arr(<<Unit("I", Str(""))>>)]
    [] sourceCode = Str(SrcNone) ->
         [errors |-> Arr(<<Warning>>), contracts |-> Undefined]
    [] OTHER -> [errors |-> Arr(<<Warning, ParserError>>), contracts |-> Undefined]

RECURSIVE join(_, _)
join(msgs, sep) ==
  CASE Len(msgs) = 0 -> ""
    [] Len(msgs) = 1 -> Head(msgs).message
    [] OTHER -> Head(msgs).message \o sep \o join(Tail(msgs), sep)

IsError(e) == e.severity = "error"

Compiled(bytecode, abi) == [ok |-> TRUE, bytecode |-> bytecode, abi |-> abi]
Failed(message) == [ok |-> FALSE, message |-> message]

\* compileSolidity without its test of output.errors
compileSolidityUnchecked(sourceCode) ==
  LET contracts == solcCompile(sourceCode).contracts
  IN CASE ~IsArr(contracts) ->
            Failed("Solidity compilation failed: Cannot read properties of undefined")
       [] Len(contracts.v) = 0 ->
            Failed("Solidity compilation failed: No contracts found in the source code")
       [] ~Truthy(contracts.v[1].object) ->
            Failed("Solidity compilation failed: No bytecode generated. Check your contract code.")
       [] OTHER -> Compiled("0x" \o contracts.v[1].object.v, contracts.v[1].abi)

\* compileSolidity: the compiled data, or the message of the Error it throws
compileSolidity(sourceCode) ==
  LET output == solcCompile(sourceCode)
      errors == IF ~Truthy(output.errors)
                THEN <<>>
                ELSE SelectSeq(output.errors.v, IsError)
      contracts == output.contracts
  IN CASE Len(errors) > 0 -> Failed("Compilation errors:\n" \o join(errors, "\n"))
       [] ~IsArr(contracts) ->
            Failed("Solidity compilation failed: Cannot read properties of undefined")
       [] Len(contracts.v) = 0 ->
            Failed("Solidity compilation failed: No contracts found in the source code")
       [] ~Truthy(contracts.v[1].object) ->
            Failed("Solidity compilation failed: No bytecode generated. Check your contract code.")
       [] OTHER -> Compiled("0x" \o contracts.v[1].object.v, contracts.v[1].abi)

\* ------------------------------------------------------------- deployment
\* a catch block that tests for gas before funds and nonce
errorKindGasFirst(message) ==
  CASE includes(message, "Compilation errors:") -> "compile"
    [] includes(message, "Solidity compilation failed:") -> "compile"
    [] includes(message, "gas") -> "gas"
    [] includes(message, "insufficient funds") -> "funds"
    [] includes(message, "nonce") -> "nonce"
    [] OTHER -> "unknown"

\* the branch of deployContract's catch an error message takes
errorKind(message) ==
  CASE includes(message, "Compilation errors:") -> "compile"
    [] includes(message, "Solidity compilation failed:") -> "compile"
    [] includes(message, "insufficient funds") -> "funds"
    [] includes(message, "nonce") -> "nonce"
    [] includes(message, "gas") -> "gas"
    [] OTHER -> "unknown"

\* what the catch block appends to every message it sends
RestartHint == " Use /deploy to try again."

\* the message deployContract sends when NETWORKS has no entry
NetworkConfigError == "Network configuration error."

\* the text the catch block puts after its headline
errorBody(message) ==
  LET kind == errorKind(message)
  IN CASE kind = "compile" ->
            "Solidity Compilation Error: "
              \o (IF includes(message, "Compilation errors:")
                  THEN replace(message, "Compilation errors:\n", "")
                  ELSE replace(message, "Solidity compilation failed: ", ""))
       [] kind = "funds" -> "Insufficient funds"
       [] kind = "nonce" -> "Nonce error"
       [] kind = "gas" -> "Gas error"
       [] OTHER -> "Error: " \o message

\* the message the catch block sends
failedReport(message) == "Deployment failed. " \o errorBody(message) \o RestartHint

\* messages an RPC call can reject with
RpcErrors ==
  {"insufficient funds for gas * price + value",
   "nonce too low: next nonce 5, raise the gas price",
   "nonce has already been used",
   "intrinsic gas too low",
   "could not coalesce error"}

\* new ethers.Wallet(privateKey, provider) throws
walletThrows(privateKey) == ~(IsStr(privateKey) /\ IsHexKey(privateKey.v))

\* new ethers.ContractFactory(abi, bytecode, wallet) throws
factoryThrows(abi, bytecode) ==
  ~(IsArr(abi) /\ IsStr(bytecode) /\ startsWith(bytecode.v, "0x")
      /\ IsHex(SubSeq(bytecode.v, 3, Len(bytecode.v))))

\* the inputs of the constructor fragment of an ABI, none when it has no
\* such fragment
constructorInputs(abi) ==
  LET IsConstructor(f) == Prop(f, "type") = Str("constructor")
      fragments == SelectSeq(abi.v, IsConstructor)
  IN IF Len(fragments) = 0 THEN <<>> ELSE Prop(fragments[1], "inputs").v

\* whether the ABI coder takes the value v for a constructor input
argAccepted(input, v) ==
  CASE Prop(input, "type") = Str("uint256") -> v.t = "num" /\ v.v >= 0
    [] Prop(input, "type") = Str("string") -> IsStr(v)
    [] OTHER -> TRUE

\* how contractFactory.deploy(...params) finds its arguments: one more than
\* the constructor declares is read as transaction overrides
deployArgs(abi, params) ==
  LET inputs == constructorInputs(abi)
  IN CASE Len(params.v) = Len(inputs) + 1 -> "overrides"
       [] Len(params.v) # Len(inputs) -> "count"
       [] \E i \in 1..Len(inputs) : ~argAccepted(inputs[i], params.v[i]) -> "type"
       [] OTHER -> "match"

ArgCountError == "incorrect number of arguments to constructor"
ArgTypeError == "invalid BigNumberish string: Cannot convert hello to a BigInt"

\* the messages contractFactory.deploy can reject with
deployErrors(args) ==
  CASE args = "count" -> {ArgCountError}
    [] args = "type" -> {ArgTypeError}
    [] args = "overrides" -> RpcErrors \cup {ArgCountError}
    [] OTHER -> RpcErrors

\* the ABI deployContract builds its factory from
factoryAbi(s) ==
  IF s.contractInputType = Str("bytecode_abi")
  THEN Prop(s.contractData, "abi")
  ELSE compileSolidity(Prop(s.contractData, "sourceCode")).abi

Pending(msgs) == [kind |-> "pending", msgs |-> msgs]
Thrown(msgs, message) ==
  [kind |-> "failed", msgs |-> Append(msgs, failedReport(message))]

\* deployContract from its first line to its first await, on the session
\* object s
deployContractStart(s) ==
  LET netInfo == IsStr(s.network) /\ s.network.v \in NETWORKS
      byteData == s.contractInputType = Str("bytecode_abi")
      abi == Prop(s.contractData, "abi")
      bytecode == Prop(s.contractData, "bytecode")
      sourceCode == Prop(s.contractData, "sourceCode")
      compiledData == compileSolidity(sourceCode)
      sent == IF byteData THEN <<"deploying">> ELSE <<"deploying", "compiling">>
  IN CASE ~netInfo -> [kind |-> "netconfig", msgs |-> <<NetworkConfigError>>]
       [] walletThrows(s.privateKey) -> Thrown(<<>>, "invalid private key")
       [] byteData /\ abi = Throw ->
            Thrown(sent, "Cannot read properties of null (reading 'abi')")
       [] byteData /\ factoryThrows(abi, bytecode) ->
            Thrown(sent, "invalid BytesLike value")
       [] ~byteData /\ sourceCode = Throw ->
            Thrown(sent, "Cannot read properties of null (reading 'sourceCode')")
       [] ~byteData /\ ~compiledData.ok -> Thrown(sent, compiledData.message)
       [] ~IsArr(s.constructorParams) ->
            Thrown(sent, "Spread syntax requires ...iterable[Symbol.iterator] to be a function")
       [] OTHER -> Pending(sent)

\* ------------------------------------------------------------------ state
VARIABLES
  userSessions,        \* the Map userSessions: chat -> its session object, or NoSession
  attempts,            \* the bag of deployContract calls suspended at an await
  out,                 \* chat -> the messages the last step for that chat sent it
  lookups,             \* the bag of viewUserContracts calls suspended at an await
  demoKey,             \* process.env.PRIVATE_KEY
  registryConfigured,  \* CONTRACT_REGISTRY_ADDRESS is not the zero address
  userContracts,       \* ContractRegistry: address -> the records it registered
  contractToOwner,     \* ContractRegistry: address -> the address that registered it
  blockTimestamp,      \* block.timestamp of the latest block
  emitted,             \* the events of the latest registry transaction
  returned             \* the outcome of the latest registry call

botVars == <<userSessions, attempts, out, lookups, demoKey, registryConfigured>>

registryVars == <<userContracts, contractToOwner, blockTimestamp, emitted, returned>>

vars == <<botVars, registryVars>>

\* address(0), the accounts that send transactions, and every address
ZeroAddress == "0x0000"
Senders == {"0xa1", "0xa2"}
Deployed == {"0xc1", "0xc2", "0xc3"}
Addresses == {ZeroAddress} \cup Senders \cup Deployed

\* no call yet
NoCall == [reverted |-> FALSE, reason |-> "", value |-> <<>>]

\* the chat ids: one chat, and two where chats are set against each other
Chats == {"A"}
TwoChats == {"A", "B"}

\* a deployContract call suspended at the await pc names.  live: the session
\* object in the call's closure is still the chat's entry of userSessions
Attempt(pc, c, live, registryTxHash, args) ==
  [pc |-> pc, chat |-> c, live |-> live, registryTxHash |-> registryTxHash,
   args |-> args]

\* what deployArgs can find; once the deploy call has resolved the arguments
\* were taken
ArgsKinds == {"match", "overrides", "count", "type"}

Pcs == {"deploy", "wait", "register", "regwait", "blocknum"}

\* the calls the chats C can have suspended
AttemptsOf(C) ==
  {Attempt("deploy", c, live, Null, args) :
     c \in C, live \in BOOLEAN, args \in ArgsKinds}
    \cup {Attempt(pc, c, live, Null, "match") :
            pc \in Pcs \ {"deploy"}, c \in C, live \in BOOLEAN}
    \cup {Attempt("blocknum", c, live, Str("0xregistry"), "match") :
            c \in C, live \in BOOLEAN}

Attempts == AttemptsOf(Chats)

\* chat c's entry of userSessions is deleted or set to another object: the
\* calls that hold the old object no longer hold the chat's entry
detached(a, c) == IF a.chat = c THEN [a EXCEPT !.live = FALSE] ELSE a

Detach(att, c) == LET d(a) == detached(a, c) IN BagOfAll(d, att)

\* the bot at start, talking to the chats C, its configuration one of
\* keys x registries
InitFor(C, keys, registries) ==
  /\ userSessions = [c \in C |-> NoSession]
  /\ attempts = EmptyBag
  /\ lookups = EmptyBag
  /\ out = [c \in C |-> <<>>]
  /\ demoKey \in keys
  /\ registryConfigured \in registries
  /\ userContracts = [a \in Addresses |-> <<>>]
  /\ contractToOwner = [a \in Addresses |-> ZeroAddress]
  /\ blockTimestamp = 1
  /\ emitted = <<>>
  /\ returned = NoCall

InitOver(keys, registries) == InitFor(Chats, keys, registries)

Init == InitOver(DemoKeys, BOOLEAN)

\* the end of every step: the new store, attempts and lookups, and the
\* messages sent to chat c
Step(c, us, att, lks, msgs) ==
  /\ userSessions' = us
  /\ attempts' = att
  /\ lookups' = lks
  /\ out' = [out EXCEPT ![c] = msgs]
  /\ UNCHANGED <<demoKey, registryConfigured, registryVars>>

\* the end of a step that starts and ends no lookup
Commit(c, us, att, msgs) == Step(c, us, att, lookups, msgs)

\* the bag B without the calls of other chats than c
CallsOf(B, c) == [x \in {y \in DOMAIN B : y.chat = c} |-> B[x]]

\* the async calls of chat c suspended at an await
Suspended(c) ==
  BagCardinality(CallsOf(attempts, c)) + BagCardinality(CallsOf(lookups, c))

\* userSessions.delete(chatId); userSessions.set(chatId, session): session is
\* a new object
Replace(c, session, msgs) ==
  Commit(c, [userSessions EXCEPT ![c] = session], Detach(attempts, c), msgs)

\* userSessions.clear() in the place of userSessions.delete(chatId)
DeleteAll(c, att, msgs) ==
  Commit(c, [b \in DOMAIN userSessions |-> NoSession], Detach(att, c), msgs)

\* userSessions.delete(chatId)
Delete(c, att, msgs) ==
  Commit(c, [userSessions EXCEPT ![c] = NoSession], Detach(att, c), msgs)

\* startDeploymentProcess that keeps the data of a session it finds
startDeploymentProcessMerge(c) ==
  IF userSessions[c] = NoSession
  THEN Replace(c, startDeploymentSession, <<"deploy_welcome">>)
  ELSE Commit(c, [userSessions EXCEPT ![c].step = "contract_input"], attempts,
              <<"deploy_welcome">>)

\* /deploy and the start_deploy button
startDeploymentProcess(c) ==
  Replace(c, startDeploymentSession, <<"deploy_welcome">>)

\* /mycontracts
showMyContracts(c) ==
  IF ~registryConfigured
  THEN Commit(c, userSessions, attempts, <<"err_registry_unconfigured">>)
  ELSE Replace(c, showMyContractsSession, <<"prompt_address">>)

\* /start, /help, /networks and the show_ and network_ buttons: a message,
\* no state
showNetworks(c) ==
  Commit(c, userSessions, attempts, <<"info">>)

\* deployContract that starts only when no call of any chat is suspended
deployContractSerial(c, s, msgs) ==
  LET d == deployContractStart(s)
  IN IF d.kind = "pending"
     THEN /\ attempts = EmptyBag
          /\ lookups = EmptyBag
          /\ Commit(c, [userSessions EXCEPT ![c] = s],
                    attempts (+) SetToBag({Attempt("deploy", c, TRUE, Null,
                                                   deployArgs(factoryAbi(s),
                                                              s.constructorParams))}),
                    msgs \o d.msgs)
     ELSE Delete(c, attempts, msgs \o d.msgs)

\* deployContract(chatId), called by a handler that left the chat's session
\* as s and has sent msgs: up to the first await, with room for cap suspended
\* calls of the chat
deployContractWithin(cap, c, s, msgs) ==
  LET d == deployContractStart(s)
  IN IF d.kind = "pending"
     THEN /\ Suspended(c) < cap
          /\ Commit(c, [userSessions EXCEPT ![c] = s],
                    attempts (+) SetToBag({Attempt("deploy", c, TRUE, Null,
                                                   deployArgs(factoryAbi(s),
                                                              s.constructorParams))}),
                    msgs \o d.msgs)
     ELSE Delete(c, attempts, msgs \o d.msgs)

deployContract(c, s, msgs) == deployContractWithin(MaxAttempts, c, s, msgs)

\* a handler that looks the chat's session up and returns when there is
\* none: res is what it does with the session it found
Handle(c, res) ==
  IF userSessions[c] = NoSession
  THEN Commit(c, userSessions, attempts, <<>>)
  ELSE IF res.deploy
       THEN deployContract(c, res.session, res.msgs)
       ELSE Commit(c, [userSessions EXCEPT ![c] = res.session], attempts,
                   res.msgs)

\* callback_query input_bytecode_abi / input_solidity
InputType(c, type) ==
  Handle(c, handleContractInputType(userSessions[c], type))

\* callback_query select_network_<network>
SelectNetwork(c, network) ==
  Handle(c, selectNetworkForDeployment(userSessions[c], network))

\* callback_query confirm_deploy
ConfirmDeploy(c) == Handle(c, requestPrivateKey(userSessions[c]))

\* cancel_deploy that also drops the chat's suspended deployContract calls
cancelDeploymentAborts(c) ==
  Commit(c, [userSessions EXCEPT ![c] = NoSession],
         [a \in {x \in BagToSet(attempts) : x.chat # c} |-> attempts[a]],
         <<"cancelled">>)

\* callback_query cancel_deploy
cancelDeployment(c) == Delete(c, attempts, <<"cancelled">>)

\* callback_query use_demo_key
UseDemoKey(c) ==
  Handle(c, useDemoKey(userSessions[c], demoKey))

\* callback_query use_demo_key, with room for one more suspended call of
\* the chat than MaxAttempts
UseDemoKeyAgain(c) ==
  LET res == useDemoKey(userSessions[c], demoKey)
  IN CASE userSessions[c] = NoSession -> Commit(c, userSessions, attempts, <<>>)
       [] res.deploy -> deployContractWithin(MaxAttempts + 1, c, res.session, res.msgs)
       [] OTHER -> Commit(c, [userSessions EXCEPT ![c] = res.session], attempts,
                          res.msgs)

\* callback_query enter_own_key
EnterOwnKey(c) == Handle(c, requestCustomPrivateKey(userSessions[c]))

\* a viewUserContracts call suspended at the await pc names
Lookup(pc, c) == [pc |-> pc, chat |-> c]

LookupPcs == {"blocknum", "code", "query"}

LookupsOf(C) == {Lookup(pc, c) : pc \in LookupPcs, c \in C}

Lookups == LookupsOf(Chats)

\* handleAddressForContracts without its userSessions.delete(chatId)
handleAddressForContractsKeeps(c, address) ==
  CASE userSessions[c].action # Str("view_contracts") ->
         Commit(c, userSessions, attempts, <<>>)
    [] ~addressAccepted(userSessions[c], address) ->
         Commit(c, userSessions, attempts, <<"err_address">>)
    [] OTHER ->
         /\ Suspended(c) < MaxAttempts
         /\ Step(c, userSessions, attempts,
                 lookups (+) SetToBag({Lookup("blocknum", c)}), <<>>)

\* handleAddressForContracts on the session it found
handleAddressForContracts(c, address) ==
  CASE userSessions[c].action # Str("view_contracts") ->
         Commit(c, userSessions, attempts, <<>>)
    [] ~addressAccepted(userSessions[c], address) ->
         Commit(c, userSessions, attempts, <<"err_address">>)
    [] OTHER ->
         /\ Suspended(c) < MaxAttempts
         /\ Step(c, [userSessions EXCEPT ![c] = NoSession], Detach(attempts, c),
                 lookups (+) SetToBag({Lookup("blocknum", c)}), <<>>)

\* a message handler that opens a deployment workflow for a chat without a
\* session
MessageAutoStart(c, text) ==
  IF userSessions[c] = NoSession
  THEN startDeploymentProcess(c)
  ELSE Handle(c, onMessage(userSessions[c], text))

\* a message handler that compiles a source text when it receives it and
\* rejects one that does not compile
MessageCompiles(c, text) ==
  CASE userSessions[c].step = "awaiting_address" ->
         handleAddressForContracts(c, text)
    [] /\ userSessions[c].step = "awaiting_contract_data"
       /\ userSessions[c].contractInputType = Str("solidity")
       /\ ~compileSolidity(Str(text)).ok ->
         Commit(c, userSessions, attempts, <<"compiling", "err_contract_data">>)
    [] OTHER -> Handle(c, onMessage(userSessions[c], text))

\* bot.on('message') for a text that is no command
Message(c, text) ==
  IF userSessions[c].step = "awaiting_address"
  THEN handleAddressForContracts(c, text)
  ELSE Handle(c, onMessage(userSessions[c], text))

\* ------------------------------------------- deployContract after an await
\* attempts without the call a
Without(a) == attempts (-) SetToBag({a})

\* the call a moves on to its next await, as b
Advance(a, b, msgs) ==
  /\ BagIn(a, attempts)
  /\ Commit(a.chat, userSessions, Without(a) (+) SetToBag({b}), msgs)

\* the call a returns without a finally block
FinishKeepsSession(a, msgs) ==
  /\ BagIn(a, attempts)
  /\ Commit(a.chat, userSessions, Without(a), msgs)

\* the call a returns: its last messages, then the finally block's
\* userSessions.delete(chatId)
Finish(a, msgs) ==
  /\ BagIn(a, attempts)
  /\ Delete(a.chat, Without(a), msgs)

\* await contractFactory.deploy(...)
DeployResolves(a) ==
  /\ a.pc = "deploy"
  /\ a.args \in {"match", "overrides"}
  /\ Advance(a, [a EXCEPT !.pc = "wait", !.args = "match"], <<"tx_sent">>)

DeployRejects(a, message) ==
  /\ a.pc = "deploy"
  /\ message \in deployErrors(a.args)
  /\ Finish(a, <<failedReport(message)>>)

\* await contract.waitForDeployment(), await deployedContract.getAddress()
WaitResolves(a) ==
  /\ a.pc = "wait"
  /\ IF registryConfigured
     THEN Advance(a, [a EXCEPT !.pc = "register"], <<"registering">>)
     ELSE Advance(a, [a EXCEPT !.pc = "blocknum"], <<>>)

WaitRejects(a, message) ==
  /\ a.pc = "wait"
  /\ Finish(a, <<failedReport(message)>>)

\* registerContractWithRegistry: await contractRegistry.registerContract(...)
RegisterResolves(a) ==
  /\ a.pc = "register"
  /\ Advance(a, [a EXCEPT !.pc = "regwait"], <<>>)

\* ... its catch: return null
RegisterRejects(a) ==
  /\ a.pc \in {"register", "regwait"}
  /\ Advance(a, [a EXCEPT !.pc = "blocknum"], <<>>)

\* registerContractWithRegistry: await tx.wait(); return receipt.hash
RegisterConfirmed(a) ==
  /\ a.pc = "regwait"
  /\ Advance(a, [a EXCEPT !.pc = "blocknum", !.registryTxHash = Str("0xregistry")],
             <<>>)

\* the success message deployContract sends
successReport(registryTxHash, configured) ==
  CASE Truthy(registryTxHash) -> "success_registered"
    [] ~configured -> "success_no_registry"
    [] OTHER -> "success"

\* await provider.getBlockNumber() inside the success message
BlockNumberResolves(a) ==
  /\ a.pc = "blocknum"
  /\ Finish(a, <<successReport(a.registryTxHash, registryConfigured)>>)

BlockNumberRejects(a, message) ==
  /\ a.pc = "blocknum"
  /\ Finish(a, <<failedReport(message)>>)

\* one await of the call a settles
Settle(a) ==
  \/ DeployResolves(a)
  \/ \E m \in RpcErrors \cup {ArgCountError, ArgTypeError} : DeployRejects(a, m)
  \/ WaitResolves(a)
  \/ \E m \in RpcErrors : WaitRejects(a, m)
  \/ RegisterResolves(a)
  \/ RegisterRejects(a)
  \/ RegisterConfirmed(a)
  \/ BlockNumberResolves(a)
  \/ \E m \in RpcErrors : BlockNumberRejects(a, m)

\* -------------------------------------- viewUserContracts after an await
\* the message viewUserContracts' catch sends
lookupError(message) == "Error retrieving contracts: " \o message

CannotConnect == "Cannot connect to mantle-testnet network. Please check your configuration."
RegistryNotFound == "Contract not found at the registry address on mantle-testnet"
UnexpectedFormat == "Unexpected response format from contract"

\* the call l moves on to its next await
LookupAdvance(l, pc) ==
  /\ BagIn(l, lookups)
  /\ Step(l.chat, userSessions, attempts,
          (lookups (-) SetToBag({l})) (+) SetToBag({Lookup(pc, l.chat)}), <<>>)

\* the call l returns after sending msgs
LookupFinish(l, msgs) ==
  /\ BagIn(l, lookups)
  /\ Step(l.chat, userSessions, attempts, lookups (-) SetToBag({l}), msgs)

\* await provider.getBlockNumber()
LookupConnects(l) ==
  /\ l.pc = "blocknum"
  /\ LookupAdvance(l, "code")

LookupConnectFails(l) ==
  /\ l.pc = "blocknum"
  /\ LookupFinish(l, <<lookupError(CannotConnect)>>)

\* the code an RPC node can return for the registry address
Codes == {"0x", "0x6080"}

\* a lookup that goes on to the query whatever code it finds
CodeResolvesUnchecked(l, code) ==
  /\ l.pc = "code"
  /\ LookupAdvance(l, "query")

\* await provider.getCode(CONTRACT_REGISTRY_ADDRESS)
CodeResolves(l, code) ==
  /\ l.pc = "code"
  /\ IF code = "0x"
     THEN LookupFinish(l, <<lookupError(RegistryNotFound)>>)
     ELSE LookupAdvance(l, "query")

CodeRejects(l) ==
  /\ l.pc = "code"
  /\ LookupFinish(l, <<lookupError(RegistryNotFound)>>)

\* what getUserContracts can resolve with: no record, one record, a value
\* that is no array
QueryResults == {Arr(<<>>), Arr(<<Str("record")>>), Null}

\* await contractRegistry.getUserContracts(userAddress)
QueryResolves(l, contracts) ==
  /\ l.pc = "query"
  /\ CASE ~IsArr(contracts) -> LookupFinish(l, <<lookupError(UnexpectedFormat)>>)
       [] Len(contracts.v) = 0 -> LookupFinish(l, <<"no_contracts">>)
       [] OTHER -> LookupFinish(l, <<"contracts_list">>)

QueryRejects(l, message) ==
  /\ l.pc = "query"
  /\ LookupFinish(l, <<lookupError(message)>>)

\* one await of the call l settles
SettleLookup(l) ==
  \/ LookupConnects(l)
  \/ LookupConnectFails(l)
  \/ \E code \in Codes : CodeResolves(l, code)
  \/ CodeRejects(l)
  \/ \E contracts \in QueryResults : QueryResolves(l, contracts)
  \/ \E m \in RpcErrors : QueryRejects(l, m)

\* ------------------------------------------------------ ContractRegistry
\* struct DeployedContract
DeployedContract(name, contractAddress, network, timestamp, txHash, deployer) ==
  [name |-> name, contractAddress |-> contractAddress, network |-> network,
   timestamp |-> timestamp, txHash |-> txHash, deployer |-> deployer]

\* event ContractRegistered
ContractRegistered(deployer, contractAddress, name, network, txHash, timestamp) ==
  [event |-> "ContractRegistered", deployer |-> deployer,
   contractAddress |-> contractAddress, name |-> name, network |-> network,
   txHash |-> txHash, timestamp |-> timestamp]

\* event ContractUpdated
ContractUpdated(deployer, contractAddress, newName) ==
  [event |-> "ContractUpdated", deployer |-> deployer,
   contractAddress |-> contractAddress, newName |-> newName]

\* bytes32(0) and the inputs of the registry's functions
ZeroHash == "0x00"
TxHashes == {ZeroHash, "0xaa"}
RegistryNames == {"", "Token", "Vault"}
RegistryNetworks == {"", "sepolia"}

\* what a call returns, the values in a tuple, or the reason of its revert
Returns(value) == [reverted |-> FALSE, reason |-> "", value |-> value]
Reverted(reason) == [reverted |-> TRUE, reason |-> reason, value |-> <<>>]

\* a new block
Mine ==
  /\ blockTimestamp < MaxTimestamp
  /\ blockTimestamp' = blockTimestamp + 1
  /\ UNCHANGED <<botVars, userContracts, contractToOwner, emitted, returned>>

\* what a call leaves: the storage, the events and the outcome
Effect(contracts, owners, events, outcome) ==
  [contracts |-> contracts, owners |-> owners, events |-> events, outcome |-> outcome]

\* a failed require, or revert(reason): the storage stays as it was and no
\* event is emitted
revert(reason) == Effect(userContracts, contractToOwner, <<>>, Reverted(reason))

\* the index of the first record of contracts with the address, 0 when the
\* loop ends without one
find(contracts, contractAddress) ==
  LET at == {i \in DOMAIN contracts : contracts[i].contractAddress = contractAddress}
  IN IF at = {} THEN 0 ELSE CHOOSE i \in at : \A j \in at : i <= j

\* registerContract without its require on contractToOwner
registerContractAgain(sender, name, contractAddress, network, txHash) ==
  CASE ~(Len(name) > 0) -> revert("Name cannot be empty")
    [] ~(contractAddress # ZeroAddress) -> revert("Invalid contract address")
    [] ~(Len(network) > 0) -> revert("Network cannot be empty")
    [] ~(txHash # ZeroHash) -> revert("Invalid transaction hash")
    [] OTHER ->
         Effect([userContracts EXCEPT ![sender] =
                   Append(@, DeployedContract(name, contractAddress, network,
                                              blockTimestamp, txHash, sender))],
                [contractToOwner EXCEPT ![contractAddress] = sender],
                <<ContractRegistered(sender, contractAddress, name, network,
                                     txHash, blockTimestamp)>>,
                Returns(<<>>))

\* registerContract without its require on txHash
registerContractAnyHash(sender, name, contractAddress, network, txHash) ==
  CASE ~(Len(name) > 0) -> revert("Name cannot be empty")
    [] ~(contractAddress # ZeroAddress) -> revert("Invalid contract address")
    [] ~(Len(network) > 0) -> revert("Network cannot be empty")
    [] ~(contractToOwner[contractAddress] = ZeroAddress) ->
         revert("Contract already registered")
    [] OTHER ->
         Effect([userContracts EXCEPT ![sender] =
                   Append(@, DeployedContract(name, contractAddress, network,
                                              blockTimestamp, txHash, sender))],
                [contractToOwner EXCEPT ![contractAddress] = sender],
                <<ContractRegistered(sender, contractAddress, name, network,
                                     txHash, blockTimestamp)>>,
                Returns(<<>>))

\* registerContract that stores the record without its owner
registerContractUnowned(sender, name, contractAddress, network, txHash) ==
  CASE ~(Len(name) > 0) -> revert("Name cannot be empty")
    [] ~(contractAddress # ZeroAddress) -> revert("Invalid contract address")
    [] ~(Len(network) > 0) -> revert("Network cannot be empty")
    [] ~(txHash # ZeroHash) -> revert("Invalid transaction hash")
    [] ~(contractToOwner[contractAddress] = ZeroAddress) ->
         revert("Contract already registered")
    [] OTHER ->
         Effect([userContracts EXCEPT ![sender] =
                   Append(@, DeployedContract(name, contractAddress, network,
                                              blockTimestamp, txHash, sender))],
                contractToOwner,
                <<ContractRegistered(sender, contractAddress, name, network,
                                     txHash, blockTimestamp)>>,
                Returns(<<>>))

\* registerContract that puts the new record first in the list
registerContractFirst(sender, name, contractAddress, network, txHash) ==
  CASE ~(Len(name) > 0) -> revert("Name cannot be empty")
    [] ~(contractAddress # ZeroAddress) -> revert("Invalid contract address")
    [] ~(Len(network) > 0) -> revert("Network cannot be empty")
    [] ~(txHash # ZeroHash) -> revert("Invalid transaction hash")
    [] ~(contractToOwner[contractAddress] = ZeroAddress) ->
         revert("Contract already registered")
    [] OTHER ->
         Effect([userContracts EXCEPT ![sender] =
                   <<DeployedContract(name, contractAddress, network,
                                      blockTimestamp, txHash, sender)>> \o @],
                [contractToOwner EXCEPT ![contractAddress] = sender],
                <<ContractRegistered(sender, contractAddress, name, network,
                                     txHash, blockTimestamp)>>,
                Returns(<<>>))

\* function registerContract, msg.sender being sender
registerContract(sender, name, contractAddress, network, txHash) ==
  CASE ~(Len(name) > 0) -> revert("Name cannot be empty")
    [] ~(contractAddress # ZeroAddress) -> revert("Invalid contract address")
    [] ~(Len(network) > 0) -> revert("Network cannot be empty")
    [] ~(txHash # ZeroHash) -> revert("Invalid transaction hash")
    [] ~(contractToOwner[contractAddress] = ZeroAddress) ->
         revert("Contract already registered")
    [] OTHER ->
         LET newContract ==
               DeployedContract(name, contractAddress, network, blockTimestamp,
                                txHash, sender)
         IN Effect([userContracts EXCEPT ![sender] = Append(@, newContract)],
                   [contractToOwner EXCEPT ![contractAddress] = sender],
                   <<ContractRegistered(sender, contractAddress, name, network,
                                        txHash, blockTimestamp)>>,
                   Returns(<<>>))

\* updateContractName without the modifier onlyContractOwner
updateContractNameByAnyone(sender, contractAddress, newName) ==
  LET contracts == userContracts[sender]
      i == find(contracts, contractAddress)
  IN CASE ~(contractToOwner[contractAddress] # ZeroAddress) ->
            revert("Contract not registered")
       [] ~(Len(newName) > 0) -> revert("Name cannot be empty")
       [] i # 0 ->
            Effect([userContracts EXCEPT ![sender][i].name = newName],
                   contractToOwner,
                   <<ContractUpdated(sender, contractAddress, newName)>>,
                   Returns(<<>>))
       [] OTHER -> Effect(userContracts, contractToOwner, <<>>, Returns(<<>>))

\* the sequence without its element i
removeAt(contracts, i) ==
  SubSeq(contracts, 1, i - 1) \o SubSeq(contracts, i + 1, Len(contracts))

\* updateContractName that writes the renamed record at the end of the list
updateContractNameMoves(sender, contractAddress, newName) ==
  LET contracts == userContracts[sender]
      i == find(contracts, contractAddress)
  IN CASE ~(contractToOwner[contractAddress] # ZeroAddress) ->
            revert("Contract not registered")
       [] ~(contractToOwner[contractAddress] = sender) ->
            revert("Not the contract owner")
       [] ~(Len(newName) > 0) -> revert("Name cannot be empty")
       [] i # 0 ->
            Effect([userContracts EXCEPT ![sender] =
                      Append(removeAt(contracts, i), [contracts[i] EXCEPT !.name = newName])],
                   contractToOwner,
                   <<ContractUpdated(sender, contractAddress, newName)>>,
                   Returns(<<>>))
       [] OTHER -> Effect(userContracts, contractToOwner, <<>>, Returns(<<>>))

\* function updateContractName with its modifiers contractExists and
\* onlyContractOwner
updateContractName(sender, contractAddress, newName) ==
  LET contracts == userContracts[sender]
      i == find(contracts, contractAddress)
  IN CASE ~(contractToOwner[contractAddress] # ZeroAddress) ->
            revert("Contract not registered")
       [] ~(contractToOwner[contractAddress] = sender) ->
            revert("Not the contract owner")
       [] ~(Len(newName) > 0) -> revert("Name cannot be empty")
       [] i # 0 ->
            Effect([userContracts EXCEPT ![sender][i].name = newName],
                   contractToOwner,
                   <<ContractUpdated(sender, contractAddress, newName)>>,
                   Returns(<<>>))
       [] OTHER -> Effect(userContracts, contractToOwner, <<>>, Returns(<<>>))

\* getContract that returns the last record of the owner's list
getContractLast(sender, contractAddress) ==
  LET owner == contractToOwner[contractAddress]
      contracts == userContracts[owner]
  IN CASE ~(contractToOwner[contractAddress] # ZeroAddress) ->
            revert("Contract not registered")
       [] Len(contracts) > 0 ->
            Effect(userContracts, contractToOwner, <<>>,
                   Returns(<<contracts[Len(contracts)]>>))
       [] OTHER -> revert("Contract not found")

\* function getContract with its modifier contractExists
getContract(sender, contractAddress) ==
  LET owner == contractToOwner[contractAddress]
      contracts == userContracts[owner]
      i == find(contracts, contractAddress)
  IN CASE ~(contractToOwner[contractAddress] # ZeroAddress) ->
            revert("Contract not registered")
       [] i # 0 -> Effect(userContracts, contractToOwner, <<>>, Returns(<<contracts[i]>>))
       [] OTHER -> revert("Contract not found")

\* a transaction of the latest block
Transaction(effect) ==
  /\ userContracts' = effect.contracts
  /\ contractToOwner' = effect.owners
  /\ emitted' = effect.events
  /\ returned' = effect.outcome
  /\ UNCHANGED <<botVars, blockTimestamp>>

\* a view call: it returns or reverts and changes nothing
Call(effect) ==
  /\ returned' = effect.outcome
  /\ UNCHANGED <<botVars, userContracts, contractToOwner, blockTimestamp, emitted>>

\* ---------------------------------------------------------- specification
\* texts that take a chat through every step of both workflows
CoreTexts == {DataOk, ArgsEmpty, KeyOk}

\* every event the transport can deliver, the texts drawn from T and the
\* input kind of the input_ buttons from Types
NextOver(T, Types) ==
  \/ \E c \in Chats : startDeploymentProcess(c)
  \/ \E c \in Chats : showMyContracts(c)
  \/ \E c \in Chats : showNetworks(c)
  \/ \E c \in Chats, type \in Types : InputType(c, type)
  \/ \E c \in Chats, network \in NetworkKeys : SelectNetwork(c, network)
  \/ \E c \in Chats : ConfirmDeploy(c)
  \/ \E c \in Chats : cancelDeployment(c)
  \/ \E c \in Chats : UseDemoKey(c)
  \/ \E c \in Chats : EnterOwnKey(c)
  \/ \E c \in Chats, text \in T : Message(c, text)
  \/ \E a \in Attempts : Settle(a)

InputTypes == {"bytecode_abi", "solidity"}

Next == NextOver(CoreTexts, InputTypes)

Spec == Init /\ [][Next]_vars

\* every await of a suspended call settles: the RPC node answers or the
\* call rejects
Fairness == \A a \in Attempts : WF_vars(Settle(a))

InitFair == InitOver({Str(KeyOk)}, BOOLEAN)

\* the awaits of deployContract are the same for either input kind (the
\* compiler runs before the first of them, see SpecCompile)
NextFair == NextOver(CoreTexts, {"bytecode_abi"})

FairSpec == InitFair /\ [][NextFair]_vars /\ Fairness

\* the same events, the demo key button also when the chat's call is
\* suspended
NextAgain ==
  \/ NextFair
  \/ \E c \in Chats : UseDemoKeyAgain(c)

SpecAgain == InitFair /\ [][NextAgain]_vars

\* the bot with a well-formed demo key, sent the texts of one input step;
\* where the step is about the bytecode and ABI input, the user chooses that
\* input kind
InitOne == InitOver({Str(KeyOk)}, BOOLEAN)

ArtifactTexts ==
  {DataOk, DataCtor, DataAbiStr, DataNo0x, DataNoBytecode, DataNoAbi,
   DataBytecodeNum, "null", NotJson, ArgsEmpty}

NextArtifact == NextOver(ArtifactTexts, {"bytecode_abi"})

SpecArtifact == InitOne /\ [][NextArtifact]_vars

ArgsTexts ==
  {ArgsEmpty, ArgsTwo, "123", "{}", "\"abc\"", "true", "null", NotJson, DataOk}

NextArgs == NextOver(ArgsTexts, {"bytecode_abi"})

SpecArgs == InitOne /\ [][NextArgs]_vars

NameTexts ==
  {NameDemo, NamePadded, NameBlank, NameMax, NameTooLong, DataOk, ArgsEmpty}

NextName == NextOver(NameTexts, InputTypes)

SpecName == InitOne /\ [][NextName]_vars

KeyTexts ==
  {KeyOk, KeyBadHex, KeyShort, KeyNoPrefix, KeyLong, DataOk, ArgsEmpty}

NextKey == NextOver(KeyTexts, InputTypes)

SpecKey == InitOne /\ [][NextKey]_vars

\* the bot with a registry configured, sent addresses; the lookups it starts
\* run on
InitLookup == InitOver({Str(KeyOk)}, {TRUE})

LookupTexts ==
  {AddrOk, AddrBadHex, AddrShort, AddrNoPrefix, NotJson, DataOk, ArgsEmpty, KeyOk}

NextLookup ==
  \/ NextOver(LookupTexts, {"bytecode_abi"})
  \/ \E l \in Lookups : SettleLookup(l)

SpecLookup == InitLookup /\ [][NextLookup]_vars

\* the bot sent Solidity sources, the user choosing that input kind
CompileTexts == {SrcOk, SrcTwo, SrcIface, SrcNone, NotJson, ArgsEmpty, KeyOk}

NextCompile == NextOver(CompileTexts, {"solidity"})

SpecCompile == InitOne /\ [][NextCompile]_vars

\* the same with a registry configured
SpecSource == InitLookup /\ [][NextCompile]_vars

\* the bot sent constructor arguments that agree and disagree with the ABI
DeployArgsTexts ==
  {DataOk, DataCtorUint, ArgsEmpty, ArgsOne, ArgsStr, ArgsTwo, KeyOk}

NextDeployArgs == NextOver(DeployArgsTexts, {"bytecode_abi"})

SpecDeployArgs == InitOne /\ [][NextDeployArgs]_vars

\* the registry alone: transactions and view calls of every sender on every
\* address
RegistryInputs == {ZeroAddress} \cup Deployed

NextRegistry ==
  \/ Mine
  \/ \E sender \in Senders, name \in RegistryNames, contractAddress \in RegistryInputs,
        network \in RegistryNetworks, txHash \in TxHashes :
       Transaction(registerContract(sender, name, contractAddress, network, txHash))
  \/ \E sender \in Senders, contractAddress \in RegistryInputs, newName \in RegistryNames :
       Transaction(updateContractName(sender, contractAddress, newName))
  \/ \E sender \in Senders, contractAddress \in RegistryInputs :
       Call(getContract(sender, contractAddress))

SpecRegistry == InitLookup /\ [][NextRegistry]_vars

\* the bot talking to two chats, a registry configured, the calls of both
\* suspended side by side
InitTwo == InitFor(TwoChats, {Str(KeyOk)}, {TRUE})

TwoTexts == {DataOk, ArgsEmpty, AddrOk}

\* chat c has no call suspended
Quiet(c) == Suspended(c) = 0

\* one event handled for chat c: what its user sends, or an await of one of
\* its calls settling.  A chat whose call is suspended sends nothing but a
\* new /deploy or a cancel_deploy until the call has returned
Handled(c) ==
  \/ startDeploymentProcess(c)
  \/ cancelDeployment(c)
  \/ Quiet(c) /\ showMyContracts(c)
  \/ Quiet(c) /\ showNetworks(c)
  \/ Quiet(c) /\ InputType(c, "bytecode_abi")
  \/ Quiet(c) /\ SelectNetwork(c, "mantle-testnet")
  \/ Quiet(c) /\ ConfirmDeploy(c)
  \/ Quiet(c) /\ UseDemoKey(c)
  \/ Quiet(c) /\ EnterOwnKey(c)
  \/ \E text \in TwoTexts : Quiet(c) /\ Message(c, text)
  \/ \E a \in AttemptsOf({c}) : Settle(a)
  \/ \E l \in LookupsOf({c}) : SettleLookup(l)

\* the events of a chat that goes through the deployment workflow and
\* waits for its call to return
Deploys(c) ==
  \/ startDeploymentProcess(c)
  \/ cancelDeployment(c)
  \/ Quiet(c) /\ InputType(c, "bytecode_abi")
  \/ Quiet(c) /\ SelectNetwork(c, "mantle-testnet")
  \/ Quiet(c) /\ ConfirmDeploy(c)
  \/ Quiet(c) /\ UseDemoKey(c)
  \/ \E text \in {DataOk, ArgsEmpty} : Quiet(c) /\ Message(c, text)
  \/ \E a \in AttemptsOf({c}) : Settle(a)

\* the events of the two chats in any order: chat A sends every event, chat
\* B deploys
NextTwo == Handled("A") \/ Deploys("B")

SpecTwo == InitTwo /\ [][NextTwo]_vars

\* ------------------------------------------------------------------ properties
\* the calls of chat c that are suspended
PendingOf(c) == {a \in BagToSet(attempts) : a.chat = c}

\* the field value x has been assigned something
IsSet(x) == x.t \notin {"undefined", "null"}

\* nothing a workflow collects is in the session s
NothingCollected(s) ==
  /\ ~Truthy(s.contractInputType)
  /\ ~Truthy(s.contractData)
  /\ ~Truthy(s.constructorParams)
  /\ ~Truthy(s.contractName)
  /\ ~Truthy(s.network)
  /\ ~Truthy(s.privateKey)

\* C1: starting a workflow (deploy, or view-my-contracts with a registry
\* configured) leaves the chat one session, a new object at the workflow's
\* first step that holds nothing the old session had collected; no suspended
\* call's session is the chat's entry any more.
C1_NewWorkflowReplacesSession ==
  [][\A c \in Chats :
       /\ startDeploymentProcess(c) =>
            /\ userSessions'[c].step = "contract_input"
            /\ NothingCollected(userSessions'[c])
            /\ \A a \in BagToSet(attempts') : a.chat = c => ~a.live
       /\ (registryConfigured /\ showMyContracts(c)) =>
            /\ userSessions'[c].step = "awaiting_address"
            /\ NothingCollected(userSessions'[c])
            /\ \A a \in BagToSet(attempts') : a.chat = c => ~a.live]_vars

\* C1 witness: a deploy workflow was started over a session whose deployment
\* is still running
C1_Witness ==
  \E c \in Chats :
    /\ out[c] = <<"deploy_welcome">>
    /\ userSessions[c].step = "contract_input"
    /\ \E a \in PendingOf(c) : ~a.live

\* the order of the steps of the deploy workflow
StepOrder ==
  {<<"contract_input", "awaiting_contract_data">>,
   <<"awaiting_contract_data", "awaiting_constructor_params">>,
   <<"awaiting_constructor_params", "awaiting_contract_name">>,
   <<"awaiting_contract_name", "awaiting_network_selection">>,
   <<"awaiting_network_selection", "deployment_confirmation">>,
   <<"deployment_confirmation", "awaiting_private_key_choice">>,
   <<"awaiting_private_key_choice", "awaiting_private_key">>,
   <<"awaiting_private_key_choice", "deploying">>,
   <<"awaiting_private_key", "deploying">>}

\* everything a deployment needs is in the session s
AllCollected(s) ==
  /\ Truthy(s.contractInputType)
  /\ Truthy(s.contractData)
  /\ IsArr(s.constructorParams)
  /\ Truthy(s.contractName)
  /\ Truthy(s.network)

\* C2: the step of a session changes only along the order of the workflow,
\* and a session that enters deploying has its input kind, artifact,
\* constructor arguments, name and network set.
C2_StepsSequential ==
  [][\A c \in Chats :
       (/\ userSessions[c] # NoSession
        /\ userSessions'[c] # NoSession
        /\ ~startDeploymentProcess(c)
        /\ ~showMyContracts(c)
        /\ userSessions'[c].step # userSessions[c].step)
       => /\ <<userSessions[c].step, userSessions'[c].step>> \in StepOrder
          /\ userSessions'[c].step = "deploying" => AllCollected(userSessions'[c])]_vars

\* a JSON object with a bytecode string that starts with 0x and an abi array
WellFormedArtifact(text) ==
  LET v == JSONparse(text)
  IN /\ IsObj(v)
     /\ IsStr(Prop(v, "bytecode"))
     /\ startsWith(Prop(v, "bytecode").v, "0x")
     /\ IsArr(Prop(v, "abi"))

\* C3: at awaiting_contract_data with input kind bytecode_abi, a text that
\* is not a JSON object with a bytecode string starting with 0x and an abi
\* array is rejected with a re-prompt and leaves the session as it was; a
\* text that is one moves the step to awaiting_constructor_params.
C3_ArtifactValidated ==
  [][\A c \in Chats, text \in ArtifactTexts :
       (/\ userSessions[c].step = "awaiting_contract_data"
        /\ userSessions[c].contractInputType = Str("bytecode_abi")
        /\ Message(c, text))
       => IF WellFormedArtifact(text)
          THEN userSessions'[c].step = "awaiting_constructor_params"
          ELSE /\ userSessions'[c] = userSessions[c]
               /\ out'[c] = <<"err_contract_data">>]_vars

\* C4: at awaiting_constructor_params a text that parses as a JSON array
\* becomes constructorParams, elements in the order sent, and the step
\* becomes awaiting_contract_name; any other text is rejected and leaves the
\* step and constructorParams as they were.
C4_ArgsValidated ==
  [][\A c \in Chats, text \in ArgsTexts :
       (/\ userSessions[c].step = "awaiting_constructor_params"
        /\ Message(c, text))
       => IF text \in {ArgsEmpty, ArgsTwo}
          THEN /\ userSessions'[c].step = "awaiting_contract_name"
               /\ userSessions'[c].constructorParams = JSONparse(text)
               /\ text = ArgsTwo =>
                    userSessions'[c].constructorParams = Arr(<<Num(123), Str("hello")>>)
               /\ text = ArgsEmpty => userSessions'[c].constructorParams = Arr(<<>>)
          ELSE /\ userSessions'[c].step = "awaiting_constructor_params"
               /\ userSessions'[c].constructorParams = userSessions[c].constructorParams
               /\ out'[c] = <<"err_params">>]_vars

\* C4 witness: the two-element array was accepted in the order sent
C4_Witness ==
  \E c \in Chats :
    /\ out[c] = <<"params_ok">>
    /\ userSessions[c].step = "awaiting_contract_name"
    /\ userSessions[c].constructorParams = Arr(<<Num(123), Str("hello")>>)

\* C5: at awaiting_contract_name the text is trimmed; an empty or
\* over-100-character result is rejected and leaves the session as it was,
\* any other result becomes contractName and the step becomes
\* awaiting_network_selection; so every stored contractName has 1..100
\* characters.
C5_NameValidated ==
  /\ [][\A c \in Chats, text \in NameTexts :
          (/\ userSessions[c].step = "awaiting_contract_name"
           /\ Message(c, text))
          => IF trim(text) = "" \/ Len(trim(text)) > MaxNameLen
             THEN userSessions'[c] = userSessions[c]
             ELSE /\ userSessions'[c].contractName = Str(trim(text))
                  /\ userSessions'[c].step = "awaiting_network_selection"]_vars
  /\ [](\A c \in Chats :
          (userSessions[c] # NoSession /\ IsSet(userSessions[c].contractName))
          => /\ IsStr(userSessions[c].contractName)
             /\ Len(userSessions[c].contractName.v) \in 1..MaxNameLen)

\* C5 witness: a padded name was stored trimmed
C5_Witness ==
  \E c \in Chats :
    /\ out[c] = <<"name_ok">>
    /\ userSessions[c].step = "awaiting_network_selection"
    /\ userSessions[c].contractName = Str("Demo")

\* C6: at awaiting_private_key, with everything before it collected, a text
\* that is not 0x followed by 64 hexadecimal digits is rejected: the session
\* stays as it was, with no key, and no deployment is started.
C6_KeyValidated ==
  [][\A c \in Chats, text \in KeyTexts :
       (/\ userSessions[c].step = "awaiting_private_key"
        /\ AllCollected(userSessions[c])
        /\ Message(c, text)
        /\ ~IsHexKey(text))
       => /\ userSessions'[c] = userSessions[c]
          /\ attempts' = attempts
          /\ out'[c] = <<"err_key">>]_vars

\* C7: at awaiting_private_key_choice, with everything before it
\* collected, choosing the demo key adopts it and
\* starts the deployment when the configured demo key is 0x followed by 64
\* hexadecimal digits, and leaves the session as it was, with no deployment
\* started, when the demo key is absent or ill-formed; choosing to enter a
\* key moves the step to awaiting_private_key and adopts no key.
C7_DemoKeyChoice ==
  [][\A c \in Chats :
       /\ (/\ userSessions[c].step = "awaiting_private_key_choice"
           /\ AllCollected(userSessions[c])
           /\ UseDemoKey(c))
          => IF IsStr(demoKey) /\ IsHexKey(demoKey.v)
             THEN \/ userSessions'[c] = NoSession
                  \/ /\ userSessions'[c].step = "deploying"
                     /\ userSessions'[c].privateKey = demoKey
             ELSE /\ userSessions'[c] = userSessions[c]
                  /\ attempts' = attempts
       /\ (/\ userSessions[c].step = "awaiting_private_key_choice"
           /\ EnterOwnKey(c))
          => /\ userSessions'[c].step = "awaiting_private_key"
             /\ userSessions'[c].privateKey = userSessions[c].privateKey]_vars

\* the last message of a deployment: its success or its failure
IsTerminalReport(report) ==
  \/ report \in {"success", "success_registered", "success_no_registry"}
  \/ report = NetworkConfigError
  \/ startsWith(report, "Deployment failed.")

\* C8: a session at deploying is eventually gone from the store, given that
\* every await settles; a session at deploying has its deployContract call
\* running; every step that reports the end of a deployment (success, a
\* failure of any kind, no network configuration) leaves the chat without a
\* session; and a chat without a session gets one only by starting a
\* workflow.
C8_DeployingEndsWithoutSession ==
  /\ \A c \in Chats :
       (userSessions[c].step = "deploying") ~> (userSessions[c] = NoSession)
  /\ [](\A c \in Chats :
          userSessions[c].step = "deploying" => \E a \in PendingOf(c) : a.live)
  /\ [][\A c \in Chats :
          (out'[c] # <<>> /\ IsTerminalReport(out'[c][Len(out'[c])]))
          => userSessions'[c] = NoSession]_vars
  /\ [][\A c \in Chats :
          (userSessions[c] = NoSession /\ userSessions'[c] # NoSession)
          => startDeploymentProcess(c) \/ showMyContracts(c)]_vars

\* C8 witness: a deployment that went through registration has reported
\* success and the chat has no session
C8_Witness ==
  \E c \in Chats :
    /\ out[c] = <<"success_registered">>
    /\ userSessions[c] = NoSession
    /\ PendingOf(c) = {}

\* C9: a session in the store holds a private key only at step deploying
\* and while its deployContract call has not returned.
C9_KeyOnlyWhileDeploying ==
  \A c \in Chats :
    (userSessions[c] # NoSession /\ IsSet(userSessions[c].privateKey))
    => /\ userSessions[c].step = "deploying"
       /\ \E a \in PendingOf(c) : a.live

\* C10: the cancel button deletes a session at any step up to
\* awaiting_private_key_choice and leaves a session at awaiting_private_key
\* or deploying as it was.
C10_CancelHonoredUntilKeyChoice ==
  [][\A c \in Chats :
       (userSessions[c] # NoSession /\ cancelDeployment(c))
       => IF userSessions[c].step \in {"awaiting_private_key", "deploying"}
          THEN userSessions'[c] = userSessions[c]
          ELSE userSessions'[c] = NoSession]_vars

\* the await a suspended call is at, whatever else the call holds
Stage(a) == [pc |-> a.pc, chat |-> a.chat]

Stages(att) == BagOfAll(Stage, att)

\* the awaits of deployContract in the order it reaches them
PcOrder ==
  {<<"deploy", "wait">>, <<"wait", "register">>, <<"wait", "blocknum">>,
   <<"register", "regwait">>, <<"register", "blocknum">>,
   <<"regwait", "blocknum">>}

\* the terminal reports among the messages msgs
TerminalCount(msgs) ==
  Cardinality({i \in 1..Len(msgs) : IsTerminalReport(msgs[i])})

SuccessReports == {"success", "success_registered", "success_no_registry"}

\* a command, button or text of chat c
UserEvent(c) ==
  \/ startDeploymentProcess(c)
  \/ showMyContracts(c)
  \/ showNetworks(c)
  \/ cancelDeployment(c)
  \/ ConfirmDeploy(c)
  \/ UseDemoKey(c)
  \/ EnterOwnKey(c)
  \/ \E type \in InputTypes : InputType(c, type)
  \/ \E network \in NetworkKeys : SelectNetwork(c, network)
  \/ \E text \in CoreTexts : Message(c, text)

\* C11: no command, button (cancel included) or text removes a suspended
\* deployContract call or moves it; a call moves only from one await to the
\* next in order, sending no terminal report; it ends with exactly one
\* terminal report, a success only after the confirmation; and with every
\* await settling, a suspended call does end.
C11_AttemptRunsToCompletion ==
  /\ [][\A c \in Chats : UserEvent(c) => Stages(attempts) \sqsubseteq Stages(attempts')]_vars
  /\ [][\/ Stages(attempts) \sqsubseteq Stages(attempts')
        \/ \E a \in BagToSet(attempts), pc \in Pcs :
             /\ <<a.pc, pc>> \in PcOrder
             /\ Stages(attempts') =
                  (Stages(attempts) (-) SetToBag({Stage(a)}))
                    (+) SetToBag({[pc |-> pc, chat |-> a.chat]})
             /\ TerminalCount(out'[a.chat]) = 0
        \/ \E a \in BagToSet(attempts) :
             /\ Stages(attempts') = Stages(attempts) (-) SetToBag({Stage(a)})
             /\ TerminalCount(out'[a.chat]) = 1
             /\ IsTerminalReport(out'[a.chat][Len(out'[a.chat])])
             /\ out'[a.chat][Len(out'[a.chat])] \in SuccessReports
                  => a.pc = "blocknum"]_vars
  /\ (BagCardinality(attempts) = MaxAttempts)
       ~> (BagCardinality(attempts) < MaxAttempts)

\* C11 witness: the cancel button was pressed and the chat's deployContract
\* call is past the confirmation
C11_Witness ==
  \E c \in Chats :
    /\ out[c] = <<"cancelled">>
    /\ \E a \in PendingOf(c) : a.pc = "blocknum"

\* C12: a text or a button (input kind, network, confirm, demo key, own key)
\* received while the chat's session is at deploying leaves the session as
\* it was.
C12_DeployingAcceptsNoInput ==
  [][\A c \in Chats :
       (/\ userSessions[c] # NoSession
        /\ userSessions[c].step = "deploying"
        /\ \/ \E text \in CoreTexts : Message(c, text)
           \/ \E type \in InputTypes : InputType(c, type)
           \/ \E network \in NetworkKeys : SelectNetwork(c, network)
           \/ ConfirmDeploy(c)
           \/ UseDemoKey(c)
           \/ EnterOwnKey(c))
       => userSessions'[c] = userSessions[c]]_vars

\* C13: a text from a chat without a session changes no session, starts no
\* call and sends nothing; a chat without a session gets one only through
\* startDeploymentProcess or showMyContracts.
C13_TextWithoutSessionIgnored ==
  /\ [][\A c \in Chats :
          (userSessions[c] = NoSession /\ \E text \in CoreTexts : Message(c, text))
          => /\ userSessions' = userSessions
             /\ attempts' = attempts
             /\ lookups' = lookups
             /\ out'[c] = <<>>]_vars
  /\ [][\A c \in Chats :
          (userSessions[c] = NoSession /\ userSessions'[c] # NoSession)
          => startDeploymentProcess(c) \/ showMyContracts(c)]_vars

\* C13 witness: a chat whose session was deleted while its deployContract
\* call is suspended, after an event that sent nothing
C13_Witness ==
  \E c \in Chats :
    /\ userSessions[c] = NoSession
    /\ out[c] = <<>>
    /\ \E a \in PendingOf(c) : ~a.live /\ a.pc = "deploy"

\* C14: with no registry configured no registration call is made; a
\* rejected registration call sends no terminal report and leaves the call
\* before its success message without a registry transaction; and the call
\* whose registration failed ends with the success report.
C14_RegistrationBestEffort ==
  /\ [](~registryConfigured
         => \A a \in BagToSet(attempts) : a.pc \notin {"register", "regwait"})
  /\ [][\A a \in Attempts :
          RegisterRejects(a)
          => /\ TerminalCount(out'[a.chat]) = 0
             /\ BagIn([a EXCEPT !.pc = "blocknum"], attempts')
             /\ a.registryTxHash = Null]_vars
  /\ [][\A a \in BagToSet(attempts) :
          (/\ registryConfigured
           /\ a.pc = "blocknum"
           /\ a.registryTxHash = Null
           /\ Stages(attempts') = Stages(attempts) (-) SetToBag({Stage(a)}))
          => out'[a.chat] = <<"success">>]_vars

\* the classification rules in their order: a kind and the marks of it in
\* an error message
ClassRules ==
  <<[kind |-> "CompileFailure",
     marks |-> {"Compilation errors:", "Solidity compilation failed:"}],
    [kind |-> "InsufficientFunds", marks |-> {"insufficient funds"}],
    [kind |-> "NonceConflict", marks |-> {"nonce"}],
    [kind |-> "GasError", marks |-> {"gas"}]>>

Satisfies(message, i) == \E mark \in ClassRules[i].marks : includes(message, mark)

\* the first rule the message satisfies
Classified(message) ==
  LET hits == {i \in DOMAIN ClassRules : Satisfies(message, i)}
  IN IF hits = {}
     THEN "UnknownError"
     ELSE ClassRules[CHOOSE i \in hits : \A j \in hits : i <= j].kind

\* the kind a failure report tells the user
KindOfReport(report) ==
  CASE startsWith(report, "Deployment failed. Solidity Compilation Error: ") -> "CompileFailure"
    [] startsWith(report, "Deployment failed. Insufficient funds") -> "InsufficientFunds"
    [] startsWith(report, "Deployment failed. Nonce error") -> "NonceConflict"
    [] startsWith(report, "Deployment failed. Gas error") -> "GasError"
    [] startsWith(report, "Deployment failed. Error: ") -> "UnknownError"
    [] OTHER -> "none"

ReportsAs(report, message) ==
  /\ KindOfReport(report) = Classified(message)
  /\ Classified(message) = "UnknownError"
       => report = "Deployment failed. Error: " \o message \o RestartHint

\* the errors deployContract throws before its first await, and those of
\* contractFactory.deploy that no RPC node raises
ThrownEarly ==
  {compileSolidity(Str(text)).message : text \in {SrcNone, SrcIface, NotJson}}
    \cup {"invalid private key", "invalid BytesLike value", ArgCountError,
          ArgTypeError}

\* C15: the failure report of a rejected await tells the first kind, in the
\* order compile, funds, nonce, gas, that the error message satisfies, and
\* for a message satisfying none the message itself; so does the report of
\* every error thrown without an RPC call.
C15_FirstMatchClassification ==
  /\ [][\A a \in BagToSet(attempts), m \in RpcErrors :
          (DeployRejects(a, m) \/ WaitRejects(a, m) \/ BlockNumberRejects(a, m))
          => /\ Len(out'[a.chat]) = 1
             /\ ReportsAs(out'[a.chat][1], m)]_vars
  /\ [](\A m \in ThrownEarly : ReportsAs(failedReport(m), m))

\* C15 witness: a call that rejected with a message about both funds and gas
\* was reported as insufficient funds
C15_Witness ==
  \E c \in Chats :
    /\ out[c] = <<failedReport("insufficient funds for gas * price + value")>>
    /\ KindOfReport(out[c][1]) = "InsufficientFunds"
    /\ Satisfies("insufficient funds for gas * price + value", 4)

\* the failure kinds a report names other than through "Error: "
NamedKinds == {"CompileFailure", "InsufficientFunds", "NonceConflict", "GasError"}

\* C16: a deployContract call whose constructor arguments differ from the
\* ABI's constructor in count or type ends with a failure report of a kind
\* of its own, not the report of an unknown error.
C16_InvalidConstructorArgs ==
  [][\A a \in BagToSet(attempts), m \in {ArgCountError, ArgTypeError} :
       (a.args \in {"count", "type"} /\ DeployRejects(a, m))
       => /\ IsTerminalReport(out'[a.chat][1])
          /\ KindOfReport(out'[a.chat][1]) \notin NamedKinds \cup {"UnknownError"}]_vars

\* the error diagnostics the compiler gives for a source text
Diagnostics(sourceCode) ==
  LET errors == solcCompile(sourceCode).errors
  IN IF IsArr(errors)
     THEN {errors.v[i].message : i \in {j \in DOMAIN errors.v : errors.v[j].severity = "error"}}
     ELSE {}

\* the compiler gives no deployable bytecode for the source text
FailsToCompile(sourceCode) ==
  LET contracts == solcCompile(sourceCode).contracts
  IN \/ Diagnostics(sourceCode) # {}
     \/ ~IsArr(contracts)
     \/ Len(contracts.v) = 0
     \/ ~Truthy(contracts.v[1].object)

\* C17: when deployContract reaches the compiler with a source text that
\* fails to compile, the step ends with a compile failure report naming every
\* error diagnostic, without the chat's session and with no call suspended
\* for it; and a call comes to its registration await only from its
\* confirmation await.
C17_CompileFailureStopsAttempt ==
  /\ [][\A c \in Chats :
          (/\ userSessions[c] # NoSession
           /\ \E i \in DOMAIN out'[c] : out'[c][i] = "compiling"
           /\ UseDemoKey(c) \/ \E text \in CompileTexts : Message(c, text)
           /\ IsStr(Prop(userSessions[c].contractData, "sourceCode"))
           /\ FailsToCompile(Prop(userSessions[c].contractData, "sourceCode")))
          => LET report == out'[c][Len(out'[c])]
             IN /\ KindOfReport(report) = "CompileFailure"
                /\ \A d \in Diagnostics(Prop(userSessions[c].contractData, "sourceCode")) :
                     includes(report, d)
                /\ userSessions'[c] = NoSession
                /\ Stages(attempts') \sqsubseteq Stages(attempts)]_vars
  /\ [][\A c \in Chats :
          LET register == [pc |-> "register", chat |-> c]
              wait == [pc |-> "wait", chat |-> c]
          IN CopiesIn(register, Stages(attempts')) > CopiesIn(register, Stages(attempts))
             => /\ CopiesIn(wait, Stages(attempts')) < CopiesIn(wait, Stages(attempts))
                /\ out'[c] = <<"registering">>]_vars

\* C17 witness: a source text with a syntax error was reported and nothing
\* is left of the attempt
C17_Witness ==
  \E c \in Chats :
    /\ userSessions[c] = NoSession
    /\ attempts = EmptyBag
    /\ Len(out[c]) > 2
    /\ out[c][Len(out[c]) - 1] = "compiling"
    /\ KindOfReport(out[c][Len(out[c])]) = "CompileFailure"
    /\ includes(out[c][Len(out[c])], ParserError.message)

\* C18: at awaiting_address a text that is not 42 characters starting with
\* 0x gets the format error and leaves the session and the lookups as they
\* were; any other text deletes the session and starts a lookup; and no
\* outcome of a lookup touches a session.
C18_AddressValidated ==
  /\ [][\A c \in Chats, text \in LookupTexts :
          (/\ userSessions[c] # NoSession
           /\ userSessions[c].step = "awaiting_address"
           /\ Message(c, text))
          => IF Len(text) = 42 /\ SubSeq(text, 1, 2) = "0x"
             THEN /\ userSessions'[c] = NoSession
                  /\ lookups' = lookups (+) SetToBag({[pc |-> "blocknum", chat |-> c]})
             ELSE /\ userSessions'[c] = userSessions[c]
                  /\ lookups' = lookups
                  /\ out'[c] = <<"err_address">>]_vars
  /\ [][\A l \in Lookups : SettleLookup(l) => userSessions' = userSessions]_vars

\* C18 witness: the lookup of an accepted address found no record and the
\* chat has no session
C18_Witness ==
  \E c \in Chats :
    /\ userSessions[c] = NoSession
    /\ out[c] = <<"no_contracts">>
    /\ lookups = EmptyBag

\* C19: a lookup that finds no code at the registry address ends there with
\* the error report that names the missing contract, and a lookup comes to
\* the query only from a code check that found code; a query resolving with
\* no record ends with the no-contracts message, which is no error report.
C19_RegistryCodePrecheck ==
  /\ [][\A l \in BagToSet(lookups) :
          /\ CodeResolves(l, "0x")
               => /\ out'[l.chat] = <<"Error retrieving contracts: " \o RegistryNotFound>>
                  /\ lookups' = lookups (-) SetToBag({l})
          /\ QueryResolves(l, Arr(<<>>))
               => /\ out'[l.chat] = <<"no_contracts">>
                  /\ ~startsWith(out'[l.chat][1], "Error")
                  /\ lookups' = lookups (-) SetToBag({l})]_vars
  /\ [][\A c \in Chats :
          CopiesIn(Lookup("query", c), lookups') > CopiesIn(Lookup("query", c), lookups)
          => \E code \in Codes \ {"0x"} : CodeResolves(Lookup("code", c), code)]_vars

\* C19 witness: a lookup ended at the code check with the missing-contract
\* report
C19_Witness ==
  \E c \in Chats :
    /\ out[c] = <<lookupError(RegistryNotFound)>>
    /\ lookups = EmptyBag

\* a message that tells the user the deployment attempt has failed
IsFailureReport(report) ==
  startsWith(report, "Deployment failed.") \/ includes(report, "Network configuration error")

\* C20: every message that reports the failure of a deployment attempt
\* tells the user to start again with /deploy.
C20_FailureTellsRestart ==
  \A c \in Chats : \A i \in DOMAIN out[c] :
    IsFailureReport(out[c][i]) => includes(out[c][i], "Use /deploy to try again")

\* where the lists of contracts hold a record of the address: owner and index
RecordsOf(contracts, contractAddress) ==
  UNION {{<<o, i>> : i \in {j \in DOMAIN contracts[o] :
                              contracts[o][j].contractAddress = contractAddress}} :
         o \in DOMAIN contracts}

\* C21: no address has more than one record over all lists, and a
\* registerContract call, by any sender, for an address that has a record
\* reverts and leaves the lists and the owner index as they were.
C21_RegisteredAtMostOnce ==
  /\ \A a \in Addresses : Cardinality(RecordsOf(userContracts, a)) <= 1
  /\ \A sender \in Senders, name \in RegistryNames, a \in Deployed,
        network \in RegistryNetworks, txHash \in TxHashes :
       RecordsOf(userContracts, a) # {}
       => LET effect == registerContract(sender, name, a, network, txHash)
          IN /\ effect.outcome.reverted
             /\ effect.contracts = userContracts
             /\ effect.owners = contractToOwner

\* C21 witness: a second registerContract for a registered address has
\* reverted
C21_Witness ==
  /\ returned = Reverted("Contract already registered")
  /\ \E a \in Deployed : Cardinality(RecordsOf(userContracts, a)) = 1

\* C22: registerContract reverts, changing no storage and emitting nothing,
\* when the name is empty, the address is address(0), the network is empty,
\* the hash is zero or the address has an owner; otherwise it appends one
\* record to the sender's list only, makes the sender the address's owner
\* and emits one ContractRegistered with the fields, the sender and the
\* block's timestamp.
C22_RegisterRequires ==
  \A sender \in Senders, name \in RegistryNames, a \in RegistryInputs,
     network \in RegistryNetworks, txHash \in TxHashes :
    LET effect == registerContract(sender, name, a, network, txHash)
    IN IF \/ name = ""
          \/ a = "0x0000"
          \/ network = ""
          \/ txHash = "0x00"
          \/ contractToOwner[a] # "0x0000"
       THEN /\ effect.outcome.reverted
            /\ effect.contracts = userContracts
            /\ effect.owners = contractToOwner
            /\ effect.events = <<>>
       ELSE /\ ~effect.outcome.reverted
            /\ effect.contracts[sender] =
                 userContracts[sender]
                   \o <<[name |-> name, contractAddress |-> a, network |-> network,
                         timestamp |-> blockTimestamp, txHash |-> txHash,
                         deployer |-> sender]>>
            /\ \A o \in Addresses \ {sender} : effect.contracts[o] = userContracts[o]
            /\ effect.owners[a] = sender
            /\ \A b \in Addresses \ {a} : effect.owners[b] = contractToOwner[b]
            /\ effect.events =
                 <<[event |-> "ContractRegistered", deployer |-> sender,
                    contractAddress |-> a, name |-> name, network |-> network,
                    txHash |-> txHash, timestamp |-> blockTimestamp]>>

\* C22 witness: a registration in the second block, after another record of
\* the same sender
C22_Witness ==
  /\ Len(emitted) = 1
  /\ emitted[1].event = "ContractRegistered"
  /\ emitted[1].timestamp = 2
  /\ LET contracts == userContracts[emitted[1].deployer]
     IN /\ Len(contracts) = 2
        /\ contracts[2].contractAddress = emitted[1].contractAddress
        /\ contracts[2].timestamp = 2

\* C23: updateContractName reverts with "Contract not registered" for an
\* address without an owner, with "Not the contract owner" for a sender that
\* is not the owner, and for an empty new name; a revert changes no record
\* and emits nothing; and a call that changes a record's name was sent by the
\* record's deployer.
C23_RenameOnlyByRegistrant ==
  \A sender \in Senders, a \in RegistryInputs, newName \in RegistryNames :
    LET effect == updateContractName(sender, a, newName)
    IN /\ contractToOwner[a] = "0x0000"
            => effect.outcome = Reverted("Contract not registered")
       /\ contractToOwner[a] \notin {"0x0000", sender}
            => effect.outcome = Reverted("Not the contract owner")
       /\ newName = "" => effect.outcome.reverted
       /\ effect.outcome.reverted
            => effect.contracts = userContracts /\ effect.events = <<>>
       /\ \A o \in Addresses : \A i \in DOMAIN userContracts[o] :
            effect.contracts[o][i].name # userContracts[o][i].name
            => userContracts[o][i].deployer = sender

\* C23 witness: a rename by a sender that is not the owner has reverted and
\* the record has the name it was registered with
C23_Witness ==
  /\ returned = Reverted("Not the contract owner")
  /\ \E a \in Deployed, o \in Senders :
       /\ contractToOwner[a] = o
       /\ userContracts[o][1].contractAddress = a

\* C24: an updateContractName call that does not revert leaves the owner
\* index and the length of every list as they were, gives the new name to
\* the one record of the address, in its place, and leaves every other field
\* of it and every other record as they were.
C24_RenameChangesOnlyName ==
  \A sender \in Senders, a \in RegistryInputs, newName \in RegistryNames :
    LET effect == updateContractName(sender, a, newName)
    IN ~effect.outcome.reverted
       => /\ effect.owners = contractToOwner
          /\ Cardinality(RecordsOf(userContracts, a)) = 1
          /\ \A o \in Addresses :
               /\ Len(effect.contracts[o]) = Len(userContracts[o])
               /\ \A i \in DOMAIN userContracts[o] :
                    LET old == userContracts[o][i]
                        new == effect.contracts[o][i]
                    IN /\ new.contractAddress = old.contractAddress
                       /\ new.network = old.network
                       /\ new.timestamp = old.timestamp
                       /\ new.txHash = old.txHash
                       /\ new.deployer = old.deployer
                       /\ new.name = IF old.contractAddress = a /\ o = sender
                                     THEN newName
                                     ELSE old.name

\* C24 witness: the first of an owner's two records was renamed
C24_Witness ==
  /\ Len(emitted) = 1
  /\ emitted[1].event = "ContractUpdated"
  /\ LET contracts == userContracts[emitted[1].deployer]
     IN /\ Len(contracts) = 2
        /\ contracts[1].contractAddress = emitted[1].contractAddress
        /\ contracts[1].name = emitted[1].newName
        /\ contracts[2].name # emitted[1].newName

\* what getContract gives sender for the address
ReadBack(sender, a) == getContract(sender, a).outcome

\* the step changes the name of a record of the address
Renames(a) ==
  \E o \in Addresses : \E i \in DOMAIN userContracts[o] :
    /\ userContracts[o][i].contractAddress = a
    /\ userContracts'[o][i].name # userContracts[o][i].name

\* C25: after a registration getContract returns to every sender the record
\* with the registered name, address, network and hash, the registrant as
\* deployer and the timestamp of the registration's block; and what
\* getContract returns for an address changes with no step but a rename of
\* that address.
C25_RegisterReadRoundTrip ==
  /\ [][(/\ userContracts' # userContracts
          /\ Len(emitted') = 1
          /\ emitted'[1].event = "ContractRegistered")
         => \A sender \in Senders, a \in Deployed :
              a = emitted'[1].contractAddress
              => ReadBack(sender, a)' =
                Returns(<<[name |-> emitted'[1].name,
                          contractAddress |-> emitted'[1].contractAddress,
                          network |-> emitted'[1].network,
                          timestamp |-> blockTimestamp,
                          txHash |-> emitted'[1].txHash,
                          deployer |-> emitted'[1].deployer]>>)]_vars
  /\ [][userContracts' # userContracts
         => \A sender \in Senders, a \in Deployed :
              (~ReadBack(sender, a).reverted /\ ~Renames(a))
              => ReadBack(sender, a)' = ReadBack(sender, a)]_vars

\* C25 witness: getContract has returned a record of the first block after a
\* registration in the second block
C25_Witness ==
  \E o \in Senders : \E i \in DOMAIN userContracts[o] :
    /\ returned = Returns(<<userContracts[o][i]>>)
    /\ userContracts[o][i].timestamp = 1
    /\ \E p \in Senders : \E j \in DOMAIN userContracts[p] :
         userContracts[p][j].timestamp = 2

\* the record but for its name
Unnamed(record) == [record EXCEPT !.name = ""]

\* C26: in every step each list keeps its records, in their places and but
\* for their names; a list grows by one record at its end, and only the list
\* of the sender of the step's registration; and an address that has an
\* owner keeps it.
C26_ListsAppendOnly ==
  [][/\ \A o \in Addresses :
          /\ Len(userContracts'[o]) >= Len(userContracts[o])
          /\ \A i \in DOMAIN userContracts[o] :
               Unnamed(userContracts'[o][i]) = Unnamed(userContracts[o][i])
          /\ Len(userContracts'[o]) > Len(userContracts[o])
               => /\ Len(userContracts'[o]) = Len(userContracts[o]) + 1
                  /\ Len(emitted') = 1
                  /\ emitted'[1].event = "ContractRegistered"
                  /\ emitted'[1].deployer = o
                  /\ userContracts'[o][Len(userContracts'[o])].contractAddress =
                       emitted'[1].contractAddress
     /\ \A a \in Addresses :
          contractToOwner[a] # ZeroAddress => contractToOwner'[a] = contractToOwner[a]]_vars

\* C26 witness: a list holds a record of the first block, renamed since,
\* before a record of the second block
C26_Witness ==
  \E o \in Senders :
    /\ Len(userContracts[o]) = 2
    /\ userContracts[o][1].timestamp = 1
    /\ userContracts[o][2].timestamp = 2
    /\ Len(emitted) = 1
    /\ emitted[1].event = "ContractUpdated"
    /\ emitted[1].contractAddress = userContracts[o][1].contractAddress

\* the places <<o, i>> of the records with the address, over all lists
PlacesOf(contractAddress) ==
  {p \in Addresses \X (1..Cardinality(Addresses)) :
     /\ p[2] \in DOMAIN userContracts[p[1]]
     /\ userContracts[p[1]][p[2]].contractAddress = contractAddress}

\* C29: an address has the non-zero owner o exactly when one record with the
\* address exists over all lists, in the list of o and with deployer o; so a
\* rename that does not revert renames the record and emits its event, and
\* getContract of an address that has an owner returns.
C29_OwnerIndexConsistent ==
  /\ \A a \in Addresses, o \in Addresses \ {ZeroAddress} :
       contractToOwner[a] = o
       <=> /\ Cardinality(PlacesOf(a)) = 1
           /\ \A p \in PlacesOf(a) :
                p[1] = o /\ userContracts[o][p[2]].deployer = o
  /\ \A a \in Addresses :
       contractToOwner[a] = ZeroAddress => PlacesOf(a) = {}
  /\ \A sender \in Senders, a \in Addresses, newName \in RegistryNames :
       ~updateContractName(sender, a, newName).outcome.reverted
       => /\ updateContractName(sender, a, newName).events =
               <<ContractUpdated(sender, a, newName)>>
          /\ \E i \in DOMAIN userContracts[sender] :
               /\ userContracts[sender][i].contractAddress = a
               /\ updateContractName(sender, a, newName).contracts[sender][i].name =
                    newName
  /\ \A sender \in Senders, a \in Addresses :
       contractToOwner[a] # ZeroAddress
       => /\ ~getContract(sender, a).outcome.reverted
          /\ getContract(sender, a).outcome.value[1].contractAddress = a

\* C29 witness: both senders own an address, one of them two, and the last
\* transaction renamed an owned record
C29_Witness ==
  /\ \A o \in Senders : \E a \in Deployed : contractToOwner[a] = o
  /\ \A a \in Deployed : contractToOwner[a] # ZeroAddress
  /\ Len(emitted) = 1
  /\ emitted[1].event = "ContractUpdated"

\* the compiler gives no compiled unit for the source text
ZeroUnits(sourceCode) ==
  LET contracts == solcCompile(sourceCode).contracts
  IN ~IsArr(contracts) \/ Len(contracts.v) = 0

\* C30: when deployContract compiles the session's source text, the first
\* of these decides the step's report: an error diagnostic gives a compile
\* failure report with the diagnostics' messages; else no compiled unit gives
\* one saying that no contracts were found; else a first unit without
\* bytecode gives one saying that no bytecode was generated; else (warnings
\* or not) the report is no compile failure, and the bytecode returned is the
\* first unit's with 0x before it once.
C30_CompileCheckOrder ==
  /\ [][\A c \in Chats :
          (/\ userSessions[c] # NoSession
           /\ \E i \in DOMAIN out'[c] : out'[c][i] = "compiling"
           /\ UseDemoKey(c) \/ \E text \in CompileTexts : Message(c, text)
           /\ IsStr(Prop(userSessions[c].contractData, "sourceCode")))
          => LET sourceCode == Prop(userSessions[c].contractData, "sourceCode")
                 report == out'[c][Len(out'[c])]
             IN CASE Diagnostics(sourceCode) # {} ->
                       /\ KindOfReport(report) = "CompileFailure"
                       /\ \A d \in Diagnostics(sourceCode) : includes(report, d)
                  [] ZeroUnits(sourceCode) ->
                       /\ KindOfReport(report) = "CompileFailure"
                       /\ includes(report, "No contracts found in the source code")
                  [] ~Truthy(solcCompile(sourceCode).contracts.v[1].object) ->
                       /\ KindOfReport(report) = "CompileFailure"
                       /\ includes(report, "No bytecode generated")
                  [] OTHER -> KindOfReport(report) # "CompileFailure"]_vars
  /\ [](\A text \in CompileTexts :
          compileSolidity(Str(text)).ok
          => LET object == solcCompile(Str(text)).contracts.v[1].object.v
             IN /\ compileSolidity(Str(text)).bytecode = "0x" \o object
                /\ ~startsWith(object, "0x"))

\* C28: an event handled for one chat, whichever it is (a workflow start, a
\* step's input, a cancellation, an await of the chat's deployContract or
\* viewUserContracts call settling), leaves the entry of the other chat
\* in userSessions as it was: a step that changes the entry of a chat is no
\* event handled for the other chat.
C28_SessionsIsolated ==
  [][\A c \in TwoChats :
       (\E b \in TwoChats \ {c} : userSessions'[b] # userSessions[b])
       => ~Handled(c)]_vars

\* C28 witness: the deployContract call of chat A has returned and deleted
\* A's session, and chat B still has its session with the data it collected
C28_Witness ==
  /\ userSessions["A"] = NoSession
  /\ out["A"] = <<"success_registered">>
  /\ userSessions["B"] # NoSession
  /\ userSessions["B"].step = "awaiting_private_key_choice"
  /\ IsSet(userSessions["B"].contractData)

\* C27: while a deployContract call of one chat is suspended, at whichever
\* await, every event of the other chat is handled: the other chat can
\* start a workflow, give each step's input and start its own deployContract
\* call, and each await of that call can settle; and the events of the other
\* chat leave the suspended call where it is.
C27_PendingChatBlocksNoOther ==
  /\ [](\A c \in TwoChats, b \in TwoChats :
          (b # c /\ PendingOf(c) # {})
          => /\ Quiet(b)
                => /\ ENABLED startDeploymentProcess(b)
                   /\ ENABLED InputType(b, "bytecode_abi")
                   /\ ENABLED SelectNetwork(b, "mantle-testnet")
                   /\ ENABLED ConfirmDeploy(b)
                   /\ ENABLED UseDemoKey(b)
                   /\ \A text \in {DataOk, ArgsEmpty} : ENABLED Message(b, text)
             /\ \A x \in PendingOf(b) : ENABLED Settle(x))
  /\ [][\A c \in TwoChats, b \in TwoChats :
          (b # c /\ PendingOf(c)' # PendingOf(c)) => ~Handled(b)]_vars

\* C27 witness: the call of chat A is suspended at its first await, the
\* transaction not yet sent, and the call of chat B at its last, its
\* contract deployed and registered
C27_Witness ==
  /\ \E a \in PendingOf("A") : a.pc = "deploy" /\ a.live
  /\ \E b \in PendingOf("B") :
       b.pc = "blocknum" /\ b.live /\ b.registryTxHash = Str("0xregistry")

\* the awaits deployContract reaches after the creation transaction is
\* confirmed
ConfirmedPcs == {"register", "regwait", "blocknum"}

\* C33: a deployContract call that returns from an await after the
\* confirmation of its creation transaction (the registration, its receipt,
\* the block number of the report) ends with a success report and no
\* "Deployment failed" message.
C33_ConfirmedAttemptReportsSuccess ==
  [][\A a \in BagToSet(attempts) :
       (/\ a.pc \in ConfirmedPcs
        /\ Stages(attempts') = Stages(attempts) (-) SetToBag({Stage(a)}))
       => /\ Len(out'[a.chat]) > 0
          /\ out'[a.chat][Len(out'[a.chat])] \in SuccessReports
          /\ \A i \in DOMAIN out'[a.chat] : ~IsFailureReport(out'[a.chat][i])]_vars

\* how many times the message that announces the compiler's run is in msgs
CompilingCount(msgs) ==
  Cardinality({i \in DOMAIN msgs : msgs[i] = "compiling"})

\* C31: a text received at awaiting_contract_data with the Solidity input
\* kind is stored as it is, compiled or not, and the compiler does not run;
\* the compiler runs only in the step that takes the session to deploying
\* and starts deployContract (the demo key button, or the key text at
\* awaiting_private_key), once, and on the source text the session holds:
\* the step's outcome is that of compiling this text.
C31_CompilationDeferred ==
  /\ [][\A c \in Chats, text \in CompileTexts :
          (/\ userSessions[c] # NoSession
           /\ userSessions[c].step = "awaiting_contract_data"
           /\ userSessions[c].contractInputType = Str("solidity")
           /\ Message(c, text))
          => /\ userSessions'[c].contractData = Obj([sourceCode |-> Str(text)])
             /\ userSessions'[c].step = "awaiting_constructor_params"
             /\ CompilingCount(out'[c]) = 0]_vars
  /\ [][\A c \in Chats :
          CompilingCount(out'[c]) > 0
          => /\ CompilingCount(out'[c]) = 1
             /\ userSessions[c] # NoSession
             /\ \/ UseDemoKey(c)
                \/ /\ userSessions[c].step = "awaiting_private_key"
                   /\ \E text \in CompileTexts : Message(c, text)
             /\ userSessions'[c] # NoSession => userSessions'[c].step = "deploying"
             /\ LET sourceCode == Prop(userSessions[c].contractData, "sourceCode")
                    report == out'[c][Len(out'[c])]
                IN IsStr(sourceCode)
                   => IF compileSolidity(sourceCode).ok
                      THEN KindOfReport(report) # "CompileFailure"
                      ELSE report = failedReport(compileSolidity(sourceCode).message)]_vars

\* C31 witness: the source text stored at awaiting_contract_data has been
\* through the steps unchanged and was compiled, once, by the step that
\* started deployContract, whose call is suspended
C31_Witness ==
  \E c \in Chats :
    /\ userSessions[c] # NoSession
    /\ userSessions[c].step = "deploying"
    /\ userSessions[c].contractData = Obj([sourceCode |-> Str(SrcTwo)])
    /\ CompilingCount(out[c]) = 1
    /\ \E a \in PendingOf(c) : a.pc = "deploy" /\ a.live

\* C32: when a deployContract call returns whose session is no longer the
\* chat's entry of userSessions (the chat has started a new workflow since),
\* the session the chat has now stays in the store, its step and data as
\* they were.
C32_ReturnKeepsNewerSession ==
  [][\A a \in BagToSet(attempts) :
       (/\ ~a.live
        /\ userSessions[a.chat] # NoSession
        /\ Stages(attempts') = Stages(attempts) (-) SetToBag({Stage(a)}))
       => userSessions'[a.chat] = userSessions[a.chat]]_vars

\* C34: a chat has at most one deployContract call suspended, and at most
\* one call was started from the session that is the chat's entry.
C34_OneAttemptPerSession ==
  \A c \in Chats :
    /\ BagCardinality(CallsOf(attempts, c)) <= 1
    /\ BagCardinality([a \in {x \in PendingOf(c) : x.live} |-> attempts[a]]) <= 1

====
